---- MODULE Spec2Model ----
(***************************************************************************)
(* Model of the ADF <-> Markdown converter of                              *)
(* plugins/util/skills/atlassian/scripts/adf_converter.py.                 *)
(*                                                                         *)
(* A Python str is a sequence of one-character strings, a dict is a record *)
(* (dict.get(k, d) is Get), a list is a sequence.  Positions in a str are  *)
(* 0-based as in Python: the character at Python index k is s[k + 1].      *)
(***************************************************************************)
EXTENDS Integers, Sequences, FiniteSets, TLC

VARIABLES
    input,     \* description of the case the run was started with
    markdown,  \* markdown_to_adf: the markdown argument
    lines,     \* markdown_to_adf: lines
    i,         \* markdown_to_adf: line cursor
    content,   \* markdown_to_adf / add_spacing_before_blocks: node list
    adf,       \* the ADF value handed to adf_to_markdown
    tree,      \* html_to_adf: the parsed element tree, wrapped in a sequence
    out,       \* what adf_to_markdown or html_to_adf returned or raised
    pc         \* position of the run

vars == <<input, markdown, lines, i, content, adf, tree, out, pc>>

\* the missing value: what dict.get returns without a default, and a slot not yet filled
None == "None"

NL == "\n"

\* the grave accent character (U+0060), which a TLA+ string cannot hold
Backtick == "BACKTICK"

\* ------------------------------------------------------------------ str

\* F applied to v: gives a name to a value that is used several times
Let(v, F(_)) == F(v)

\* dict.get(key, default)
Get(d, k, default) == IF k \in DOMAIN d THEN d[k] ELSE default

\* characters str.strip() / str.lstrip() remove, and \s of the regexes
Whitespace == {" ", "\t", NL}

Digits == {"0", "1", "2", "3", "4", "5", "6", "7", "8", "9"}

\* number of leading elements of s that are in S
LeadingCount(s, S) ==
    IF \A k \in 1..Len(s) : s[k] \in S
    THEN Len(s)
    ELSE (CHOOSE k \in 1..Len(s) : s[k] \notin S /\ \A j \in 1..(k - 1) : s[j] \in S) - 1

\* number of trailing elements of s that are in S
TrailingCount(s, S) ==
    IF \A k \in 1..Len(s) : s[k] \in S
    THEN Len(s)
    ELSE Len(s) - (CHOOSE k \in 1..Len(s) : s[k] \notin S /\ \A j \in (k + 1)..Len(s) : s[j] \in S)

\* s[a:b] for 0 <= a, b
Slice(s, a, b) == SubSeq(s, a + 1, IF b > Len(s) THEN Len(s) ELSE b)

\* str.lstrip(chars)
lstrip_chars(s, S) == SubSeq(s, LeadingCount(s, S) + 1, Len(s))

\* str.lstrip()
lstrip(s) == lstrip_chars(s, Whitespace)

\* str.rstrip()
rstrip(s) == SubSeq(s, 1, Len(s) - TrailingCount(s, Whitespace))

\* str.strip()
strip(s) == rstrip(lstrip(s))

\* str.startswith(prefix)
startswith(s, p) == Len(s) >= Len(p) /\ SubSeq(s, 1, Len(p)) = p

\* str.startswith((p1, p2, ...))
startswith_any(s, ps) == \E p \in ps : startswith(s, p)

\* text[k:k+len(p)] == p
At(s, k, p) == k >= 0 /\ k + Len(p) <= Len(s) /\ SubSeq(s, k + 1, k + Len(p)) = p

RECURSIVE split(_, _)
\* str.split(sep) for a one-character sep
split(s, sep) ==
    IF \A k \in 1..Len(s) : s[k] # sep
    THEN <<s>>
    ELSE LET k == CHOOSE k \in 1..Len(s) : s[k] = sep /\ \A j \in 1..(k - 1) : s[j] # sep
         IN  <<SubSeq(s, 1, k - 1)>> \o split(SubSeq(s, k + 1, Len(s)), sep)

RECURSIVE join(_, _)
\* sep.join(parts)
join(sep, parts) ==
    IF Len(parts) = 0 THEN <<>>
    ELSE IF Len(parts) = 1 THEN parts[1]
    ELSE parts[1] \o sep \o join(sep, Tail(parts))

RECURSIVE concat(_)
\* ''.join(parts)
concat(parts) == IF Len(parts) = 0 THEN <<>> ELSE parts[1] \o concat(Tail(parts))

\* c * n
Repeat(c, n) == [k \in 1..n |-> c]

\* filter(None, parts): the non-empty strings of parts, in order
filter_none(parts) == SelectSeq(parts, LAMBDA p : p # <<>>)

\* str(n) for 0 <= n <= 99
DigitChar(n) == <<"0", "1", "2", "3", "4", "5", "6", "7", "8", "9">>[n + 1]

\* f"{i}" of a small natural
IntToStr(n) == IF n < 10 THEN <<DigitChar(n)>> ELSE <<DigitChar(n \div 10), DigitChar(n % 10)>>

\* ------------------------------------------------------- inline patterns

NoMatch == [start |-> -1]

\* the smallest element of a non-empty set of integers
Min(S) == CHOOSE m \in S : \A n \in S : m <= n

NoNewline(s) == \A k \in 1..Len(s) : s[k] # NL

\* ends e of the lazy group of  open(.+?)close  started at s: text[e:] starts with close
DelimEnds(text, s, open, close) ==
    {e \in (s + Len(open) + 1)..Len(text) :
        At(text, e, close) /\ NoNewline(Slice(text, s + Len(open), e))}

\* re.compile(open (.+?) close).search(text, pos): leftmost start, shortest group
search_delim(text, pos, open, close) ==
    Let({s \in pos..Len(text) : At(text, s, open) /\ DelimEnds(text, s, open, close) # {}},
        LAMBDA starts :
            IF starts = {} THEN NoMatch
            ELSE Let(Min(starts), LAMBDA s :
                 Let(Min(DelimEnds(text, s, open, close)), LAMBDA e :
                     [start |-> s, end |-> e + Len(close),
                      group1 |-> Slice(text, s + Len(open), e)])))

\* ends of group 2 of the link pattern once group 1 ended at e1 (text[e1:e1+2] == "](")
LinkEnds2(text, e1) ==
    {e2 \in (e1 + 3)..Len(text) : At(text, e2, <<")">>) /\ NoNewline(Slice(text, e1 + 2, e2))}

\* ends of group 1 of the link pattern started at s
LinkEnds1(text, s) ==
    {e1 \in (s + 2)..Len(text) :
        At(text, e1, <<"]", "(">>) /\ NoNewline(Slice(text, s + 1, e1)) /\ LinkEnds2(text, e1) # {}}

\* re.compile(r'\[(.+?)\]\((.+?)\)').search(text, pos)
search_link(text, pos) ==
    Let({s \in pos..Len(text) : At(text, s, <<"[">>) /\ LinkEnds1(text, s) # {}},
        LAMBDA starts :
            IF starts = {} THEN NoMatch
            ELSE Let(Min(starts), LAMBDA s :
                 Let(Min(LinkEnds1(text, s)), LAMBDA e1 :
                 Let(Min(LinkEnds2(text, e1)), LAMBDA e2 :
                     [start |-> s, end |-> e2 + 1,
                      group1 |-> Slice(text, s + 1, e1), group2 |-> Slice(text, e1 + 2, e2)]))))

\* the mark types of _INLINE_PATTERNS, in order (bold before italic)
_INLINE_PATTERNS == <<"strong", "em", "code", "strike", "link">>

\* pattern.search(text, pos) for the pattern of _INLINE_PATTERNS with this mark type
pattern_search(mark_type, text, pos) ==
    CASE mark_type = "strong" -> search_delim(text, pos, <<"*", "*">>, <<"*", "*">>)
      [] mark_type = "em"     -> search_delim(text, pos, <<"*">>, <<"*">>)
      [] mark_type = "code"   -> search_delim(text, pos, <<Backtick>>, <<Backtick>>)
      [] mark_type = "strike" -> search_delim(text, pos, <<"~", "~">>, <<"~", "~">>)
      [] mark_type = "link"   -> search_link(text, pos)

RECURSIVE earliest_last_wins(_, _, _, _)
\* the for loop with "<=" for "<": among equal starts the later pattern wins
earliest_last_wins(text, pos, k, best) ==
    IF k > Len(_INLINE_PATTERNS) THEN best
    ELSE earliest_last_wins(text, pos, k + 1,
             Let(pattern_search(_INLINE_PATTERNS[k], text, pos), LAMBDA m :
                 IF m.start >= 0 /\ m.start <= best.earliest_start
                 THEN [earliest_match |-> m, earliest_start |-> m.start,
                       earliest_type |-> _INLINE_PATTERNS[k]]
                 ELSE best))

RECURSIVE earliest(_, _, _, _)
\* the for loop of parse_inline_markdown from pattern k on: best is the earliest so far
earliest(text, pos, k, best) ==
    IF k > Len(_INLINE_PATTERNS) THEN best
    ELSE earliest(text, pos, k + 1,
             Let(pattern_search(_INLINE_PATTERNS[k], text, pos), LAMBDA m :
                 IF m.start >= 0 /\ m.start < best.earliest_start
                 THEN [earliest_match |-> m, earliest_start |-> m.start,
                       earliest_type |-> _INLINE_PATTERNS[k]]
                 ELSE best))

\* the node appended for a match
marked_node(m, mark_type) ==
    IF mark_type = "link"
    THEN [type |-> "text", text |-> m.group1,
          marks |-> <<[type |-> "link", attrs |-> [href |-> m.group2]]>>]
    ELSE [type |-> "text", text |-> m.group1, marks |-> <<[type |-> mark_type]>>]

RECURSIVE inline_loop(_, _, _)
\* the while loop of parse_inline_markdown
inline_loop(text, pos, nodes) ==
    IF pos >= Len(text) THEN nodes
    ELSE Let(earliest(text, pos, 1,
                 [earliest_match |-> NoMatch, earliest_start |-> Len(text),
                  earliest_type |-> None]),
             LAMBDA best :
                 IF best.earliest_match = NoMatch
                 THEN nodes \o <<[type |-> "text", text |-> Slice(text, pos, Len(text))]>>
                 ELSE inline_loop(text, best.earliest_match.end,
                          nodes
                          \o (IF best.earliest_start > pos
                              THEN <<[type |-> "text",
                                      text |-> Slice(text, pos, best.earliest_start)]>>
                              ELSE <<>>)
                          \o <<marked_node(best.earliest_match, best.earliest_type)>>))

\* parse_inline_markdown(text)
parse_inline_markdown(text) == IF text = <<>> THEN <<>> ELSE inline_loop(text, 0, <<>>)

\* one iteration of the while loop that drops the text before the match
inline_step_drops_prefix(text, pos) ==
    Let(earliest(text, pos, 1,
            [earliest_match |-> NoMatch, earliest_start |-> Len(text), earliest_type |-> None]),
        LAMBDA best :
            IF best.earliest_match = NoMatch
            THEN [matched |-> FALSE, pos |-> pos,
                  nodes |-> <<[type |-> "text", text |-> Slice(text, pos, Len(text))]>>]
            ELSE [matched |-> TRUE, pos |-> best.earliest_match.end,
                  span |-> [start |-> best.earliest_start, end |-> best.earliest_match.end,
                            type |-> best.earliest_type,
                            group1 |-> best.earliest_match.group1],
                  nodes |-> <<marked_node(best.earliest_match, best.earliest_type)>>])

\* one iteration of the while loop of parse_inline_markdown at pos < len(text): the
\* nodes it appends, the new pos, and the span of the match if there was one
inline_step(text, pos) ==
    Let(earliest(text, pos, 1,
            [earliest_match |-> NoMatch, earliest_start |-> Len(text), earliest_type |-> None]),
        LAMBDA best :
            IF best.earliest_match = NoMatch
            THEN [matched |-> FALSE, pos |-> pos,
                  nodes |-> <<[type |-> "text", text |-> Slice(text, pos, Len(text))]>>]
            ELSE [matched |-> TRUE, pos |-> best.earliest_match.end,
                  span |-> [start |-> best.earliest_start, end |-> best.earliest_match.end,
                            type |-> best.earliest_type,
                            group1 |-> best.earliest_match.group1],
                  nodes |-> (IF best.earliest_start > pos
                             THEN <<[type |-> "text",
                                     text |-> Slice(text, pos, best.earliest_start)]>>
                             ELSE <<>>)
                            \o <<marked_node(best.earliest_match, best.earliest_type)>>])

\* parse_inline_markdown(text), one iteration at a time: markdown is text, i is pos,
\* content is nodes, out lists the spans matched so far

\* an iteration that finds a match
InlineMatch ==
    /\ pc = "inline"
    /\ i < Len(markdown)
    /\ \E r \in {inline_step(markdown, i)} :
        /\ r.matched
        /\ content' = content \o r.nodes
        /\ i' = r.pos
        /\ out' = Append(out, r.span)
    /\ UNCHANGED <<tree, input, markdown, lines, adf, pc>>

\* the iteration that finds no match: the remaining text is added and the loop left
InlineRest ==
    /\ pc = "inline"
    /\ i < Len(markdown)
    /\ \E r \in {inline_step(markdown, i)} :
        /\ ~r.matched
        /\ content' = content \o r.nodes
    /\ pc' = "done"
    /\ UNCHANGED <<tree, input, markdown, lines, i, adf, out>>

\* "if not text: return []" and the loop condition failing
InlineReturn ==
    /\ pc = "inline"
    /\ i >= Len(markdown)
    /\ pc' = "done"
    /\ UNCHANGED <<tree, input, markdown, lines, i, content, adf, out>>

\* ------------------------------------------------------ ADF -> Markdown

\* [f(x) for x in seq]
Map(seq, f(_)) == [k \in 1..Len(seq) |-> f(seq[k])]

\* extract_text_from_content reading only the direct text children
extract_text_flat(c) ==
    concat(Map(c, LAMBDA item : IF Get(item, "type", None) = "text" THEN item.text ELSE <<>>))

RECURSIVE extract_text_from_content(_)
\* extract_text_from_content(content)
extract_text_from_content(c) ==
    concat(Map(c, LAMBDA item :
        IF Get(item, "type", None) = "text" THEN item.text
        ELSE IF "content" \in DOMAIN item THEN extract_text_from_content(item.content)
        ELSE <<>>))

\* convert_inline_card(node)
convert_inline_card(node) ==
    LET url == Get(Get(node, "attrs", [x |-> None]), "url", <<>>)
    IN  IF url = <<>> THEN <<>> ELSE <<"[">> \o url \o <<"]", "(">> \o url \o <<")">>

\* apply_mark writing emphasis with underscores
apply_mark_underscore(text, mark) ==
    LET mark_type == mark.type
    IN  CASE mark_type = "strong"    -> <<"*", "*">> \o text \o <<"*", "*">>
          [] mark_type = "em"        -> <<"_">> \o text \o <<"_">>
          [] mark_type = "code"      -> <<Backtick>> \o text \o <<Backtick>>
          [] mark_type = "strike"    -> <<"~", "~">> \o text \o <<"~", "~">>
          [] mark_type = "link"      ->
                <<"[">> \o text \o <<"]", "(">>
                    \o Get(Get(mark, "attrs", [x |-> None]), "href", <<>>) \o <<")">>
          [] OTHER -> text

\* one step of "for mark in marks" of convert_paragraph: text wrapped by the mark
apply_mark(text, mark) ==
    LET mark_type == mark.type
    IN  CASE mark_type = "strong"    -> <<"*", "*">> \o text \o <<"*", "*">>
          [] mark_type = "em"        -> <<"*">> \o text \o <<"*">>
          [] mark_type = "code"      -> <<Backtick>> \o text \o <<Backtick>>
          [] mark_type = "strike"    -> <<"~", "~">> \o text \o <<"~", "~">>
          [] mark_type = "underline" -> <<"<", "u", ">">> \o text \o <<"<", "/", "u", ">">>
          [] mark_type = "link"      ->
                LET href  == Get(Get(mark, "attrs", [x |-> None]), "href", <<>>)
                    title == Get(Get(mark, "attrs", [x |-> None]), "title", <<>>)
                IN  IF title # <<>>
                    THEN <<"[">> \o text \o <<"]", "(">> \o href \o <<" ", "\"">> \o title \o <<"\"", ")">>
                    ELSE <<"[">> \o text \o <<"]", "(">> \o href \o <<")">>
          [] OTHER -> text

RECURSIVE apply_marks(_, _)
\* the loop "for mark in marks" of convert_paragraph, first mark innermost
apply_marks(text, marks) ==
    IF Len(marks) = 0 THEN text ELSE apply_marks(apply_mark(text, marks[1]), Tail(marks))

\* the part convert_paragraph appends for one inline item
paragraph_part(item) ==
    LET t == Get(item, "type", None)
    IN  CASE t = "text"       -> apply_marks(item.text, Get(item, "marks", <<>>))
          [] t = "hardBreak"  -> <<" ", " ", NL>>
          [] t = "emoji"      -> Get(Get(item, "attrs", [x |-> None]), "text", <<>>)
          [] t = "mention"    -> Get(Get(item, "attrs", [x |-> None]), "text", <<"@", "u", "s", "e", "r">>)
          [] t = "inlineCard" -> convert_inline_card(item)
          [] OTHER -> <<>>

\* convert_paragraph(node)
convert_paragraph(node) == concat(Map(Get(node, "content", <<>>), paragraph_part))

\* convert_extension(node)
convert_extension(node) ==
    LET attrs == Get(node, "attrs", [x |-> None])
        t1    == Get(Get(attrs, "parameters", [x |-> None]), "extensionTitle", <<>>)
        unknown == <<"U", "n", "k", "n", "o", "w", "n", " ", "e", "x", "t", "e", "n", "s", "i", "o", "n">>
        extension_title == IF t1 = <<>> THEN Get(attrs, "text", unknown) ELSE t1
    IN  <<"<", "!", "-", "-", " ", "E", "x", "t", "e", "n", "s", "i", "o", "n", ":", " ">>
            \o extension_title \o <<" ", "-", "-", ">">>

ListTypes == {"bulletList", "orderedList", "taskList"}

RECURSIVE convert_node_to_markdown(_, _)
RECURSIVE convert_task_list(_, _)
RECURSIVE convert_task_item(_, _)
RECURSIVE convert_expand(_)
RECURSIVE convert_list_item(_, _, _)
RECURSIVE convert_bullet_list(_, _)
RECURSIVE convert_ordered_list(_, _)
RECURSIVE convert_table(_)

\* the list item body writing "- " with a trailing space for an item without paragraph
convert_list_item_trailing_space(list_item, depth, marker) ==
    LET item_content == Get(list_item, "content", <<>>)
        indent == Repeat(" ", 2 * depth)
        paras  == {k \in 1..Len(item_content) : Get(item_content[k], "type", None) = "paragraph"}
        first  == IF paras = {} THEN 0 ELSE Min(paras)
        nested_blocks ==
            [k \in 1..Len(item_content) |->
                LET child == item_content[k]
                    t == Get(child, "type", None)
                IN  IF k = first THEN <<>>
                    ELSE IF t = "paragraph" THEN <<convert_paragraph(child)>>
                    ELSE IF t \in ListTypes THEN <<convert_node_to_markdown(child, depth + 1)>>
                    ELSE filter_none(<<convert_node_to_markdown(child, depth + 1)>>)]
        head == indent \o marker \o <<" ">>
                    \o (IF first # 0 THEN convert_paragraph(item_content[first]) ELSE <<>>)
    IN  <<head>> \o concat(nested_blocks)

\* the body of "for list_item in ..." of convert_bullet_list / convert_ordered_list:
\* the entries one listItem appends to items, its first line starting with marker
convert_list_item(list_item, depth, marker) ==
    LET item_content == Get(list_item, "content", <<>>)
        indent == Repeat(" ", 2 * depth)
        paras  == {k \in 1..Len(item_content) : Get(item_content[k], "type", None) = "paragraph"}
        first  == IF paras = {} THEN 0 ELSE Min(paras)
        nested_blocks ==
            [k \in 1..Len(item_content) |->
                LET child == item_content[k]
                    t == Get(child, "type", None)
                IN  IF k = first THEN <<>>
                    ELSE IF t = "paragraph" THEN <<convert_paragraph(child)>>
                    ELSE IF t \in ListTypes THEN <<convert_node_to_markdown(child, depth + 1)>>
                    ELSE filter_none(<<convert_node_to_markdown(child, depth + 1)>>)]
        head == IF first # 0
                THEN indent \o marker \o <<" ">> \o convert_paragraph(item_content[first])
                ELSE indent \o marker
    IN  <<head>> \o concat(nested_blocks)

\* convert_bullet_list writing the items with the star marker
convert_bullet_list_star(node, depth) ==
    LET c == Get(node, "content", <<>>)
    IN  join(<<NL>>, concat([k \in 1..Len(c) |->
            IF Get(c[k], "type", None) # "listItem" THEN <<>>
            ELSE convert_list_item(c[k], depth, <<"*">>)]))

\* convert_bullet_list(node, depth)
convert_bullet_list(node, depth) ==
    LET c == Get(node, "content", <<>>)
    IN  join(<<NL>>, concat([k \in 1..Len(c) |->
            IF Get(c[k], "type", None) # "listItem" THEN <<>>
            ELSE convert_list_item(c[k], depth, <<"-">>)]))

\* convert_ordered_list(node, depth)
convert_ordered_list(node, depth) ==
    LET c == Get(node, "content", <<>>)
    IN  join(<<NL>>, concat([k \in 1..Len(c) |->
            IF Get(c[k], "type", None) # "listItem" THEN <<>>
            ELSE convert_list_item(c[k], depth, IntToStr(k) \o <<".">>)]))

\* convert_task_list(node, depth)
convert_task_list(node, depth) ==
    LET c == Get(node, "content", <<>>)
    IN  join(<<NL>>, concat([k \in 1..Len(c) |->
            IF Get(c[k], "type", None) # "taskItem" THEN <<>>
            ELSE filter_none(<<convert_task_item(c[k], depth)>>)]))

\* convert_task_item(node, depth)
convert_task_item(node, depth) ==
    LET indent == Repeat(" ", 2 * depth)
        state  == Get(Get(node, "attrs", [x |-> None]), "state", "TODO")
        checkbox == IF state = "DONE" THEN <<"[", "x", "]">> ELSE <<"[", " ", "]">>
        item_content == Get(node, "content", <<>>)
        item_lines ==
            concat([k \in 1..Len(item_content) |->
                LET child == item_content[k]
                    t == Get(child, "type", None)
                IN  IF t = "text" THEN <<Get(child, "text", <<>>)>>
                    ELSE IF t = "paragraph" THEN <<convert_paragraph(child)>>
                    ELSE <<>>])
        nested_content ==
            concat([k \in 1..Len(item_content) |->
                LET child == item_content[k]
                    t == Get(child, "type", None)
                IN  IF t \in {"text", "paragraph"} THEN <<>>
                    ELSE IF t = "taskList" THEN <<convert_task_list(child, depth + 1)>>
                    ELSE filter_none(<<convert_node_to_markdown(child, depth + 1)>>)])
        head == IF Len(item_lines) > 0
                THEN indent \o <<"-", " ">> \o checkbox \o <<" ">> \o concat(item_lines)
                ELSE indent \o <<"-", " ">> \o checkbox
    IN  join(<<NL>>, <<head>> \o nested_content)

\* convert_expand(node)
convert_expand(node) ==
    LET title == Get(Get(node, "attrs", [x |-> None]), "title", <<"D", "e", "t", "a", "i", "l", "s">>)
        content_lines ==
            filter_none(Map(Get(node, "content", <<>>), LAMBDA child : convert_node_to_markdown(child, 0)))
        open == <<"<", "d", "e", "t", "a", "i", "l", "s", ">", NL,
                  "<", "s", "u", "m", "m", "a", "r", "y", ">">> \o title
                    \o <<"<", "/", "s", "u", "m", "m", "a", "r", "y", ">", NL>>
        body == IF Len(content_lines) > 0
                THEN <<NL>> \o join(<<NL, NL>>, content_lines) \o <<NL>>
                ELSE <<>>
    IN  open \o body \o <<"<", "/", "d", "e", "t", "a", "i", "l", "s", ">">>

\* convert_table(node)
convert_table(node) ==
    LET c == Get(node, "content", <<>>)
        row_cells(row_node) ==
            LET rc == Get(row_node, "content", <<>>)
            IN  concat([k \in 1..Len(rc) |->
                    IF Get(rc[k], "type", None) \in {"tableHeader", "tableCell"}
                    THEN <<join(<<" ">>, Map(Get(rc[k], "content", <<>>),
                                LAMBDA content_node : convert_node_to_markdown(content_node, 0)))>>
                    ELSE <<>>])
        md_line(cells) == <<"|", " ">> \o join(<<" ", "|", " ">>, cells) \o <<" ", "|">>
    IN  Let(concat([k \in 1..Len(c) |->
                IF Get(c[k], "type", None) # "tableRow" THEN <<>> ELSE <<row_cells(c[k])>>]),
            LAMBDA rows :
                IF Len(rows) = 0 THEN <<>>
                ELSE join(<<NL>>,
                        <<md_line(rows[1]), md_line([k \in 1..Len(rows[1]) |-> <<"-", "-", "-">>])>>
                            \o Map(Tail(rows), md_line)))

\* convert_node_to_markdown(node, list_depth)
convert_node_to_markdown(node, list_depth) ==
    LET node_type == Get(node, "type", None)
    IN  CASE node_type = "paragraph"   -> convert_paragraph(node)
          [] node_type = "heading"     ->
                LET level == Get(Get(node, "attrs", [x |-> None]), "level", 1)
                    text  == extract_text_from_content(Get(node, "content", <<>>))
                IN  Repeat("#", level) \o <<" ">> \o text
          [] node_type = "bulletList"  -> convert_bullet_list(node, list_depth)
          [] node_type = "orderedList" -> convert_ordered_list(node, list_depth)
          [] node_type = "codeBlock"   ->
                LET language == Get(Get(node, "attrs", [x |-> None]), "language", <<>>)
                    code     == extract_text_from_content(Get(node, "content", <<>>))
                    fence    == <<Backtick, Backtick, Backtick>>
                IN  fence \o language \o <<NL>> \o code \o <<NL>> \o fence
          [] node_type = "blockquote"  ->
                LET c == Get(node, "content", <<>>)
                IN  join(<<NL>>, concat([k \in 1..Len(c) |->
                        Map(split(convert_node_to_markdown(c[k], list_depth), NL),
                            LAMBDA line : <<">", " ">> \o line)]))
          [] node_type = "rule"        -> <<"-", "-", "-">>
          [] node_type = "table"       -> convert_table(node)
          [] node_type = "taskList"    -> convert_task_list(node, list_depth)
          [] node_type = "taskItem"    -> convert_task_item(node, list_depth)
          [] node_type = "inlineCard"  -> convert_inline_card(node)
          [] node_type = "expand"      -> convert_expand(node)
          [] node_type = "extension"   -> convert_extension(node)
          [] OTHER -> extract_text_from_content(Get(node, "content", <<>>))

\* adf_to_markdown without the check of the root type
adf_to_markdown_any_root(doc) ==
    [returned |-> join(<<NL, NL>>,
        filter_none(Map(Get(doc, "content", <<>>),
            LAMBDA node : convert_node_to_markdown(node, 0))))]

\* adf_to_markdown joining every rendering, the empty ones included
adf_to_markdown_no_filter(doc) ==
    IF Get(doc, "type", None) # "doc"
    THEN [raised |-> "ValueError"]
    ELSE [returned |-> join(<<NL, NL>>,
            Map(Get(doc, "content", <<>>), LAMBDA node : convert_node_to_markdown(node, 0)))]

\* adf_to_markdown(adf): what it returns, or the exception it raises
adf_to_markdown(doc) ==
    IF Get(doc, "type", None) # "doc"
    THEN [raised |-> "ValueError"]
    ELSE [returned |-> join(<<NL, NL>>,
            filter_none(Map(Get(doc, "content", <<>>),
                LAMBDA node : convert_node_to_markdown(node, 0))))]

\* ------------------------------------------------------ Markdown -> ADF

\* the spacing pass inserting paragraphs that hold a text
add_spacing_visible(c) ==
    concat([k \in 1..Len(c) |->
        LET node == c[k]
            node_type == Get(node, "type", None)
            spacer == [type |-> "paragraph", content |-> <<[type |-> "text", text |-> <<"s">>]>>]
            before_rule == IF node_type = "rule" /\ k - 1 > 0 THEN <<spacer>> ELSE <<>>
            before_heading ==
                IF node_type = "heading" /\ k - 1 > 0
                       /\ Get(Get(node, "attrs", [x |-> None]), "level", 1) >= 2
                THEN <<spacer>> ELSE <<>>
        IN  before_rule \o before_heading \o <<node>>])

\* add_spacing_before_blocks without the "i > 0" tests
add_spacing_at_start(c) ==
    concat([k \in 1..Len(c) |->
        LET node == c[k]
            node_type == Get(node, "type", None)
            before_rule == IF node_type = "rule"
                           THEN <<[type |-> "paragraph", content |-> <<>>]>> ELSE <<>>
            before_heading ==
                IF node_type = "heading"
                       /\ Get(Get(node, "attrs", [x |-> None]), "level", 1) >= 2
                THEN <<[type |-> "paragraph", content |-> <<>>]>> ELSE <<>>
        IN  before_rule \o before_heading \o <<node>>])

\* add_spacing_before_blocks(content)
add_spacing_before_blocks(c) ==
    concat([k \in 1..Len(c) |->
        LET node == c[k]
            node_type == Get(node, "type", None)
            before_rule == IF node_type = "rule" /\ k - 1 > 0
                           THEN <<[type |-> "paragraph", content |-> <<>>]>> ELSE <<>>
            before_heading ==
                IF node_type = "heading" /\ k - 1 > 0
                       /\ Get(Get(node, "attrs", [x |-> None]), "level", 1) >= 2
                THEN <<[type |-> "paragraph", content |-> <<>>]>> ELSE <<>>
        IN  before_rule \o before_heading \o <<node>>])

\* add_spacing_before_blocks of html_to_adf.py with "level > 2" for "level >= 2"
html_add_spacing_above_h2(c) ==
    concat([k \in 1..Len(c) |->
        LET node == c[k]
            node_type == Get(node, "type", None)
            before_rule == IF node_type = "rule" /\ k - 1 > 0
                           THEN <<[type |-> "paragraph", content |-> <<>>]>> ELSE <<>>
            before_heading ==
                IF node_type = "heading" /\ k - 1 > 0
                       /\ Get(Get(node, "attrs", [x |-> None]), "level", 1) > 2
                THEN <<[type |-> "paragraph", content |-> <<>>]>> ELSE <<>>
        IN  before_rule \o before_heading \o <<node>>])

\* add_spacing_before_blocks(content) of html_to_adf.py
html_add_spacing_before_blocks(c) ==
    concat([k \in 1..Len(c) |->
        LET node == c[k]
            node_type == Get(node, "type", None)
            before_rule == IF node_type = "rule" /\ k - 1 > 0
                           THEN <<[type |-> "paragraph", content |-> <<>>]>> ELSE <<>>
            before_heading ==
                IF node_type = "heading" /\ k - 1 > 0
                       /\ Get(Get(node, "attrs", [x |-> None]), "level", 1) >= 2
                THEN <<[type |-> "paragraph", content |-> <<>>]>> ELSE <<>>
        IN  before_rule \o before_heading \o <<node>>])

BulletMarkers == {<<"-", " ">>, <<"*", " ">>, <<"+", " ">>}

\* line.lstrip().startswith(('- ', '* ', '+ '))
is_bullet_line(line) == startswith_any(lstrip(line), BulletMarkers)

\* get_bullet_indent without the cap at index 2
get_bullet_indent_uncapped(line) == (Len(line) - Len(lstrip(line))) \div 2

\* the indentation level taken as 0 whatever the leading spaces
get_bullet_indent_flat(line) == 0

\* get_bullet_indent(line)
get_bullet_indent(line) ==
    LET spaces == Len(line) - Len(lstrip(line))
    IN  Min({spaces \div 2, 2})

RECURSIVE bullet_loop_skips_deeper(_, _, _, _)
\* the while loop stepping over a deeper line that follows an item, without parsing it
bullet_loop_skips_deeper(ls, k, base_indent, list_items) ==
    IF \/ k >= Len(ls)
       \/ ~is_bullet_line(ls[k + 1])
       \/ get_bullet_indent(ls[k + 1]) # base_indent
    THEN [list_items |-> list_items, i |-> k]
    ELSE Let([type |-> "paragraph",
              content |-> parse_inline_markdown(strip(Slice(lstrip(ls[k + 1]), 2, Len(ls[k + 1]))))],
             LAMBDA para :
                 bullet_loop_skips_deeper(ls,
                     IF /\ k + 1 < Len(ls)
                        /\ is_bullet_line(ls[k + 2])
                        /\ get_bullet_indent(ls[k + 2]) > base_indent
                     THEN k + 2 ELSE k + 1,
                     base_indent,
                     Append(list_items, [type |-> "listItem", content |-> <<para>>])))

RECURSIVE parse_bullet_list(_, _, _)
RECURSIVE bullet_loop(_, _, _, _)

\* the while loop of parse_bullet_list with cursor k and the items so far
bullet_loop(ls, k, base_indent, list_items) ==
    IF \/ k >= Len(ls)
       \/ ~is_bullet_line(ls[k + 1])
       \/ get_bullet_indent(ls[k + 1]) # base_indent
    THEN [list_items |-> list_items, i |-> k]
    ELSE Let([type |-> "paragraph",
              content |-> parse_inline_markdown(strip(Slice(lstrip(ls[k + 1]), 2, Len(ls[k + 1]))))],
             LAMBDA para :
                 IF /\ k + 1 < Len(ls)
                    /\ is_bullet_line(ls[k + 2])
                    /\ get_bullet_indent(ls[k + 2]) > base_indent
                 THEN Let(parse_bullet_list(ls, k + 1, get_bullet_indent(ls[k + 2])),
                          LAMBDA nested :
                              bullet_loop(ls, nested.i, base_indent,
                                  Append(list_items,
                                      [type |-> "listItem", content |-> <<para, nested.node>>])))
                 ELSE bullet_loop(ls, k + 1, base_indent,
                          Append(list_items, [type |-> "listItem", content |-> <<para>>])))

\* parse_bullet_list(lines, start, base_indent): the node and the next line index
parse_bullet_list(ls, start, base_indent) ==
    Let(bullet_loop(ls, start, base_indent, <<>>), LAMBDA r :
        [node |-> [type |-> "bulletList", content |-> r.list_items], i |-> r.i])

\* length of the match of re.match(r'^\s*\d+\.\s', line), or -1
ordered_match(line) ==
    LET ws   == LeadingCount(line, Whitespace)
        rest == SubSeq(line, ws + 1, Len(line))
        d    == LeadingCount(rest, Digits)
    IN  IF d >= 1 /\ Len(rest) >= d + 2 /\ rest[d + 1] = "." /\ rest[d + 2] \in Whitespace
        THEN ws + d + 2
        ELSE -1

\* the separator test with '|' left out of the character class
is_separator_row_no_pipe(line) ==
    /\ Len(line) >= 3
    /\ line[1] = "|"
    /\ line[Len(line)] = "|"
    /\ \A k \in 2..(Len(line) - 1) : line[k] \in Whitespace \cup {"-", ":"}

\* re.match(r'^\|[\s\-:|]+\|$', line)
is_separator_row(line) ==
    /\ Len(line) >= 3
    /\ line[1] = "|"
    /\ line[Len(line)] = "|"
    /\ \A k \in 2..(Len(line) - 1) : line[k] \in Whitespace \cup {"-", ":", "|"}

RECURSIVE table_loop(_, _, _)
\* the while loop of parse_markdown_table with cursor k and the rows so far
table_loop(ls, k, rows) ==
    IF k >= Len(ls) \/ ~startswith(ls[k + 1], <<"|">>) THEN [rows |-> rows, i |-> k]
    ELSE Let(strip(ls[k + 1]), LAMBDA line :
             IF is_separator_row(line) THEN table_loop(ls, k + 1, rows)
             ELSE table_loop(ls, k + 1,
                      Append(rows, Let(split(line, "|"), LAMBDA parts :
                                       Map(SubSeq(parts, 2, Len(parts) - 1), strip)))))

\* parse_markdown_table(lines, start): the node (None without rows) and the next index
parse_markdown_table(ls, start) ==
    Let(table_loop(ls, start, <<>>), LAMBDA r :
        IF Len(r.rows) = 0 THEN [has_table |-> FALSE, i |-> start]
        ELSE [has_table |-> TRUE,
              node |-> [type |-> "table",
                        content |-> [row_idx \in 1..Len(r.rows) |->
                            [type |-> "tableRow",
                             content |-> Map(r.rows[row_idx], LAMBDA cell :
                                [type |-> IF row_idx - 1 = 0 THEN "tableHeader" ELSE "tableCell",
                                 content |-> <<[type |-> "paragraph",
                                                content |-> IF cell # <<>>
                                                            THEN parse_inline_markdown(cell)
                                                            ELSE <<>>]>>])]]],
              i |-> r.i])

Fence == <<Backtick, Backtick, Backtick>>

\* the branch of the if/elif chain of markdown_to_adf's loop that a line takes
branch(line) ==
    IF strip(line) = <<>> THEN "empty"
    ELSE IF startswith(line, <<"#">>) THEN "heading"
    ELSE IF startswith(lstrip(line), Fence) THEN "code"
    ELSE IF strip(line) \in {<<"-", "-", "-">>, <<"*", "*", "*">>, <<"_", "_", "_">>} THEN "rule"
    ELSE IF is_bullet_line(line) THEN "bullet"
    ELSE IF ordered_match(line) >= 0 THEN "ordered"
    ELSE IF startswith(line, <<">">>) THEN "quote"
    ELSE IF startswith(line, <<"|">>) THEN "table"
    ELSE "paragraph"

\* the condition of the paragraph branch's while loop on one line
paragraph_continues(line) ==
    /\ strip(line) # <<>>
    /\ ~startswith_any(line, {<<"#">>, Fence, <<"-", "-", "-">>, <<"-", " ">>, <<"*", " ">>,
                              <<"+", " ">>, <<">">>, <<"|">>})
    /\ ~startswith(lstrip(line), Fence)

\* the first index >= k whose line fails cond, or len(lines): where "while ... cond" stops
ScanWhile(ls, k, cond(_)) ==
    IF \A j \in (k + 1)..Len(ls) : cond(ls[j]) THEN Len(ls)
    ELSE (CHOOSE j \in (k + 1)..Len(ls) : ~cond(ls[j]) /\ \A h \in (k + 1)..(j - 1) : cond(ls[h])) - 1

\* the cursor is on a line that takes branch b
AtBranch(b) == pc = "parse" /\ i < Len(lines) /\ branch(lines[i + 1]) = b

\* markdown_to_adf: an empty line is skipped
EmptyLine ==
    /\ AtBranch("empty")
    /\ i' = i + 1
    /\ UNCHANGED <<tree, input, markdown, lines, content, adf, out, pc>>

\* the heading branch without the strip() of the title
HeadingUnstripped ==
    /\ AtBranch("heading")
    /\ LET line  == lines[i + 1]
           level == Len(line) - Len(lstrip_chars(line, {"#"}))
           text  == lstrip_chars(line, {"#"})
       IN  content' = Append(content,
                [type |-> "heading", attrs |-> [level |-> level],
                 content |-> <<[type |-> "text", text |-> text]>>])
    /\ i' = i + 1
    /\ UNCHANGED <<tree, input, markdown, lines, adf, out, pc>>

\* markdown_to_adf: heading
Heading ==
    /\ AtBranch("heading")
    /\ LET line  == lines[i + 1]
           level == Len(line) - Len(lstrip_chars(line, {"#"}))
           text  == strip(lstrip_chars(line, {"#"}))
       IN  content' = Append(content,
                [type |-> "heading", attrs |-> [level |-> level],
                 content |-> <<[type |-> "text", text |-> text]>>])
    /\ i' = i + 1
    /\ UNCHANGED <<tree, input, markdown, lines, adf, out, pc>>

\* markdown_to_adf: code block (may be indented)
\* the code branch keeping the indent prefix on every body line
CodeBlockKeepsIndent ==
    /\ AtBranch("code")
    /\ LET line == lines[i + 1]
           language == strip(Slice(lstrip(line), 3, Len(line)))
           stop == ScanWhile(lines, i + 1, LAMBDA l : ~startswith(lstrip(l), Fence))
           code_lines == [k \in 1..(stop - (i + 1)) |-> lines[i + 1 + k]]
       IN  /\ content' = Append(content,
                [type |-> "codeBlock", attrs |-> [language |-> language],
                 content |-> <<[type |-> "text", text |-> join(<<NL>>, code_lines)]>>])
           /\ i' = stop + 1
    /\ UNCHANGED <<tree, input, markdown, lines, adf, out, pc>>

CodeBlock ==
    /\ AtBranch("code")
    /\ LET line == lines[i + 1]
           indent_prefix == SubSeq(line, 1, Len(line) - Len(lstrip(line)))
           language == strip(Slice(lstrip(line), 3, Len(line)))
           stop == ScanWhile(lines, i + 1, LAMBDA l : ~startswith(lstrip(l), Fence))
           code_lines == [k \in 1..(stop - (i + 1)) |->
                            LET code_line == lines[i + 1 + k]
                            IN  IF startswith(code_line, indent_prefix)
                                THEN SubSeq(code_line, Len(indent_prefix) + 1, Len(code_line))
                                ELSE code_line]
       IN  /\ content' = Append(content,
                [type |-> "codeBlock", attrs |-> [language |-> language],
                 content |-> <<[type |-> "text", text |-> join(<<NL>>, code_lines)]>>])
           /\ i' = stop + 1
    /\ UNCHANGED <<tree, input, markdown, lines, adf, out, pc>>

\* markdown_to_adf: horizontal rule
Rule ==
    /\ AtBranch("rule")
    /\ content' = Append(content, [type |-> "rule"])
    /\ i' = i + 1
    /\ UNCHANGED <<tree, input, markdown, lines, adf, out, pc>>

\* markdown_to_adf: bullet list
BulletList ==
    /\ AtBranch("bullet")
    /\ \E r \in {parse_bullet_list(lines, i, get_bullet_indent(lines[i + 1]))} :
           /\ content' = Append(content, r.node)
           /\ i' = r.i
    /\ UNCHANGED <<tree, input, markdown, lines, adf, out, pc>>

\* markdown_to_adf: ordered list
OrderedList ==
    /\ AtBranch("ordered")
    /\ LET stop == ScanWhile(lines, i, LAMBDA l : ordered_match(l) >= 0)
           list_items == [k \in 1..(stop - i) |->
                [type |-> "listItem",
                 content |-> <<[type |-> "paragraph",
                                content |-> parse_inline_markdown(
                                    Slice(lines[i + k], ordered_match(lines[i + k]),
                                          Len(lines[i + k])))]>>]]
       IN  /\ content' = Append(content, [type |-> "orderedList", content |-> list_items])
           /\ i' = stop
    /\ UNCHANGED <<tree, input, markdown, lines, adf, out, pc>>

\* markdown_to_adf: blockquote
Blockquote ==
    /\ AtBranch("quote")
    /\ LET stop == ScanWhile(lines, i, LAMBDA l : startswith(l, <<">">>))
           quote_lines == [k \in 1..(stop - i) |-> strip(Slice(lines[i + k], 1, Len(lines[i + k])))]
       IN  /\ content' = Append(content,
                [type |-> "blockquote",
                 content |-> <<[type |-> "paragraph",
                                content |-> parse_inline_markdown(join(<<" ">>, quote_lines))]>>])
           /\ i' = stop
    /\ UNCHANGED <<tree, input, markdown, lines, adf, out, pc>>

\* markdown_to_adf: table (line starts with |)
Table ==
    /\ AtBranch("table")
    /\ \E r \in {parse_markdown_table(lines, i)} :
           /\ content' = IF r.has_table THEN Append(content, r.node) ELSE content
           /\ i' = r.i
    /\ UNCHANGED <<tree, input, markdown, lines, adf, out, pc>>

\* most nodes the main loop gathers in a run: a loop that appends without
\* advancing the line cursor is followed up to this length
MaxContent == 8

\* the paragraph branch stripping each line before joining
ParagraphStripped ==
    /\ AtBranch("paragraph")
    /\ Len(content) < MaxContent
    /\ LET stop == ScanWhile(lines, i, paragraph_continues)
           para_lines == Map(SubSeq(lines, i + 1, stop), strip)
       IN  /\ content' = Append(content,
                [type |-> "paragraph",
                 content |-> parse_inline_markdown(join(<<" ">>, para_lines))])
           /\ i' = stop
    /\ UNCHANGED <<tree, input, markdown, lines, adf, out, pc>>

\* markdown_to_adf: regular paragraph
Paragraph ==
    /\ AtBranch("paragraph")
    /\ Len(content) < MaxContent
    /\ LET stop == ScanWhile(lines, i, paragraph_continues)
           para_lines == SubSeq(lines, i + 1, stop)
       IN  /\ content' = Append(content,
                [type |-> "paragraph",
                 content |-> parse_inline_markdown(join(<<" ">>, para_lines))])
           /\ i' = stop
    /\ UNCHANGED <<tree, input, markdown, lines, adf, out, pc>>

\* the line cursor i after the iteration of the main loop that starts on line k
cursor_after(ls, k) ==
    CASE branch(ls[k + 1]) \in {"empty", "heading", "rule"} -> k + 1
      [] branch(ls[k + 1]) = "code" ->
            ScanWhile(ls, k + 1, LAMBDA l : ~startswith(lstrip(l), Fence)) + 1
      [] branch(ls[k + 1]) = "bullet" ->
            parse_bullet_list(ls, k, get_bullet_indent(ls[k + 1])).i
      [] branch(ls[k + 1]) = "ordered" -> ScanWhile(ls, k, LAMBDA l : ordered_match(l) >= 0)
      [] branch(ls[k + 1]) = "quote" -> ScanWhile(ls, k, LAMBDA l : startswith(l, <<">">>))
      [] branch(ls[k + 1]) = "table" -> parse_markdown_table(ls, k).i
      [] branch(ls[k + 1]) = "paragraph" -> ScanWhile(ls, k, paragraph_continues)

\* markdown_to_adf: the loop is over; spacing is added and the document returned
Build ==
    /\ pc = "parse"
    /\ i >= Len(lines)
    /\ content' = add_spacing_before_blocks(content)
    /\ adf' = [version |-> 1, type |-> "doc", content |-> content']
    /\ pc' = "built"
    /\ UNCHANGED <<tree, input, markdown, lines, i, out>>

\* adf_to_markdown is called on the document
Serialize ==
    /\ pc = "built"
    /\ out' = adf_to_markdown(adf)
    /\ pc' = "done"
    /\ UNCHANGED <<tree, input, markdown, lines, i, content, adf>>

\* ----------------------------------------------------------- HTML -> ADF

\* sub in s
contains(s, sub) == \E k \in 0..(Len(s) - Len(sub)) : At(s, k, sub)

RECURSIVE replace(_, _, _)
\* str.replace(old, new)
replace(s, old, new) ==
    IF Len(s) < Len(old) THEN s
    ELSE IF startswith(s, old) THEN new \o replace(SubSeq(s, Len(old) + 1, Len(s)), old, new)
    ELSE <<s[1]>> \o replace(Tail(s), old, new)

\* html.unescape on text whose only entity is &quot;
unescape(s) == replace(s, <<"&", "q", "u", "o", "t", ";">>, <<"\"">>)

\* the values json.loads returns
JNull == [t |-> "null"]

JBool(b) == [t |-> "bool", bool |-> b]

JInt(n) == [t |-> "int", int |-> n]

JStr(s) == [t |-> "str", str |-> s]

JList(items) == [t |-> "list", items |-> items]

\* a dict with its keys in insertion order
JDict(keys, vals) == [t |-> "dict", keys |-> keys, vals |-> vals]

\* json.loads(s) on the texts the runs hand to it
json_loads(s) ==
    CASE s = <<"[", "1", ",", " ", "2", "]">> ->
            [value |-> JList(<<JInt(1), JInt(2)>>)]
      [] s = <<"[", "0", "]">> ->
            [value |-> JList(<<JInt(0)>>)]
      [] s = <<"[", "]">> ->
            [value |-> JList(<<>>)]
      [] s = <<"{", "}">> ->
            [value |-> JDict(<<>>, <<>>)]
      [] s = <<"5">> ->
            [value |-> JInt(5)]
      [] s = <<"0">> ->
            [value |-> JInt(0)]
      [] s = <<"n", "u", "l", "l">> ->
            [value |-> JNull]
      [] s = <<"t", "r", "u", "e">> ->
            [value |-> JBool(TRUE)]
      [] s = <<"[", "\"", "a", "\"", "]">> ->
            [value |-> JList(<<JStr(<<"a">>)>>)]
      [] s = <<"[", "[", "1", "]", "]">> ->
            [value |-> JList(<<JList(<<JInt(1)>>)>>)]
      [] s = <<"[", "{", "}", "]">> ->
            [value |-> JList(<<JDict(<<>>, <<>>)>>)]
      [] s = <<"[", "n", "u", "l", "l", "]">> ->
            [value |-> JList(<<JNull>>)]
      [] s = <<"[", "{", "\"", "a", "\"", ":", " ", "1", "}", "]">> ->
            [value |-> JList(<<JDict(<<<<"a">>>>, <<JInt(1)>>)>>)]
      [] s = <<"[", "{", "\"", "a", "\"", ":", " ", "1", "}", ",", " ", "5", "]">> ->
            [value |-> JList(<<JDict(<<<<"a">>>>, <<JInt(1)>>), JInt(5)>>)]
      [] s = <<"[", "{", "\"", "a", "\"", ":", " ", "1", "}", ",", " ", "{", "\"", "b", "\"", ":", " ", "2", "}", "]">> ->
            [value |-> JList(<<JDict(<<<<"a">>>>, <<JInt(1)>>), JDict(<<<<"b">>>>, <<JInt(2)>>)>>)]
      [] s = <<"[", "{", "\"", "a", "\"", ":", " ", "1", "}", ",", " ", "n", "u", "l", "l", "]">> ->
            [value |-> JList(<<JDict(<<<<"a">>>>, <<JInt(1)>>), JNull>>)]
      [] s = <<"[", "{", "\"", "a", "\"", ":", " ", "\"", "x", "\"", "}", "]">> ->
            [value |-> JList(<<JDict(<<<<"a">>>>, <<JStr(<<"x">>)>>)>>)]
      [] s = <<"[", "{", "\"", "a", "\"", ":", " ", "n", "u", "l", "l", "}", "]">> ->
            [value |-> JList(<<JDict(<<<<"a">>>>, <<JNull>>)>>)]
      [] s = <<"[", "t", "r", "u", "e", "]">> ->
            [value |-> JList(<<JBool(TRUE)>>)]
      [] s = <<"{", "\"", "a", "\"", ":", " ", "1", "}">> ->
            [value |-> JDict(<<<<"a">>>>, <<JInt(1)>>)]
      [] s = <<"[", "{", "\"", "a", "\"", ":", " ", "t", "r", "u", "e", "}", "]">> ->
            [value |-> JList(<<JDict(<<<<"a">>>>, <<JBool(TRUE)>>)>>)]
      [] s = <<"[", "1", "]">> ->
            [value |-> JList(<<JInt(1)>>)]
      [] OTHER -> [raised |-> "JSONDecodeError"]

\* bool(v) of a value json.loads returned
truthy(v) ==
    CASE v.t = "null" -> FALSE
      [] v.t = "bool" -> v.bool
      [] v.t = "int" -> v.int # 0
      [] v.t = "str" -> v.str # <<>>
      [] v.t = "list" -> v.items # <<>>
      [] v.t = "dict" -> v.keys # <<>>

\* str(v) of a scalar json.loads returned
py_str(v) ==
    CASE v.t = "null" -> <<"N", "o", "n", "e">>
      [] v.t = "bool" -> IF v.bool THEN <<"T", "r", "u", "e">> ELSE <<"F", "a", "l", "s", "e">>
      [] v.t = "int" -> IntToStr(v.int)
      [] v.t = "str" -> v.str

\* row.get(header, ''), as the text of str(value)
row_get_str(row, header) ==
    IF \E k \in 1..Len(row.keys) : row.keys[k] = header
    THEN py_str(row.vals[CHOOSE k \in 1..Len(row.keys) : row.keys[k] = header])
    ELSE <<>>

\* a table cell of this type holding one paragraph with this text
text_cell(cell_type, text) ==
    [type |-> cell_type,
     content |-> <<[type |-> "paragraph", content |-> <<[type |-> "text", text |-> text]>>]>>]

\* create_marimo_table_adf from the parsed rows_data on
marimo_rows(rows_data) ==
    IF ~truthy(rows_data) \/ rows_data.t # "list" THEN [returned |-> <<>>]
    ELSE IF ~truthy(rows_data.items[1]) THEN [returned |-> <<>>]
    ELSE IF rows_data.items[1].t # "dict" THEN [raised |-> "AttributeError"]
    ELSE IF \E r \in 1..Len(rows_data.items) : rows_data.items[r].t # "dict"
         THEN [raised |-> "AttributeError"]
    ELSE Let(rows_data.items[1].keys, LAMBDA headers :
            [returned |-> <<[type |-> "table",
                content |->
                    <<[type |-> "tableRow",
                       content |-> [h \in 1..Len(headers) |-> text_cell("tableHeader", headers[h])]]>>
                    \o [r \in 1..Len(rows_data.items) |->
                          [type |-> "tableRow",
                           content |-> [h \in 1..Len(headers) |->
                               text_cell("tableCell",
                                         row_get_str(rows_data.items[r], headers[h]))]]]]>>])

\* the data-data attribute unescaped, stripped, unquoted and with \" and \\ unescaped
marimo_json_str(data_attr) ==
    Let(strip(unescape(data_attr)), LAMBDA json_str :
        replace(replace(IF startswith(json_str, <<"\"">>) /\ json_str[Len(json_str)] = "\""
                        THEN Slice(json_str, 1, Len(json_str) - 1)
                        ELSE json_str,
                        <<"\\", "\"">>, <<"\"">>),
                <<"\\", "\\">>, <<"\\">>))

\* create_marimo_table_adf(elem): the node in a sequence (empty for None), or the
\* exception that leaves the function
create_marimo_table_adf(elem) ==
    IF Get(elem.attrs, "data-data", <<>>) = <<>> THEN [returned |-> <<>>]
    ELSE Let(json_loads(marimo_json_str(elem.attrs["data-data"])), LAMBDA loaded :
            IF "raised" \in DOMAIN loaded THEN [returned |-> <<>>]
            ELSE marimo_rows(loaded.value))

\* the mark a child element adds to the marks it inherits
child_mark(child) ==
    CASE child.tag \in {"strong", "b"} -> <<[type |-> "strong"]>>
      [] child.tag \in {"em", "i"} -> <<[type |-> "em"]>>
      [] child.tag = "code" -> <<[type |-> "code"]>>
      [] child.tag = "a" ->
            IF Get(child.attrs, "href", <<>>) # <<>>
            THEN <<[type |-> "link", attrs |-> [href |-> child.attrs["href"]]]>>
            ELSE <<>>
      [] child.tag = "u" -> <<[type |-> "underline"]>>
      [] child.tag \in {"s", "del", "strike"} -> <<[type |-> "strike"]>>
      [] OTHER -> <<>>

\* the text node appended for node.text or child.tail, if any
inline_text(text, marks) ==
    IF text = <<>> THEN <<>>
    ELSE IF marks = <<>> THEN <<[type |-> "text", text |-> text]>>
    ELSE <<[type |-> "text", text |-> text, marks |-> marks]>>

RECURSIVE process_node_tail_in_child(_, _)
\* process_node giving the tail of a child the marks of the child
process_node_tail_in_child(node, inherited_marks) ==
    inline_text(node.text, inherited_marks)
        \o concat([k \in 1..Len(node.children) |->
              process_node_tail_in_child(node.children[k],
                                         inherited_marks \o child_mark(node.children[k]))
                  \o inline_text(node.children[k].tail,
                                 inherited_marks \o child_mark(node.children[k]))])

RECURSIVE process_node(_, _)
\* process_node of extract_inline_content: the text nodes it appends
process_node(node, inherited_marks) ==
    inline_text(node.text, inherited_marks)
        \o concat([k \in 1..Len(node.children) |->
              process_node(node.children[k], inherited_marks \o child_mark(node.children[k]))
                  \o inline_text(node.children[k].tail, inherited_marks)])

\* extract_inline_content(elem)
extract_inline_content(elem) ==
    SelectSeq(process_node(elem, <<>>), LAMBDA n : strip(n.text) # <<>> \/ n.text = <<" ">>)

WrapperTags == {"html", "body", "div"}

RECURSIVE _get_block_children(_)
\* _get_block_children(tree)
_get_block_children(t) ==
    IF t.tag = "span" /\ contains(Get(t.attrs, "class", <<>>), <<"m", "a", "r", "k", "d", "o", "w", "n">>)
    THEN t.children
    ELSE IF t.tag = "marimo-ui-element"
    THEN Let(concat([k \in 1..Len(t.children) |-> _get_block_children(t.children[k])]),
             LAMBDA children : IF children # <<>> THEN children ELSE <<t>>)
    ELSE IF t.tag = "marimo-table" THEN <<t>>
    ELSE IF t.tag \in WrapperTags
    THEN concat([k \in 1..Len(t.children) |->
             IF t.children[k].tag \in WrapperTags \cup {"marimo-ui-element"}
             THEN _get_block_children(t.children[k])
             ELSE <<t.children[k]>>])
    ELSE <<t>>

\* the first result of a sequence of results: an exception, or a node, or nothing
first_result(results) ==
    IF \A k \in 1..Len(results) : results[k] = [returned |-> <<>>] THEN [returned |-> <<>>]
    ELSE results[Min({k \in 1..Len(results) : results[k] # [returned |-> <<>>]})]

HeadingTags == <<"h1", "h2", "h3", "h4", "h5", "h6">>

RECURSIVE text_content(_)
\* elem.text_content(): the text of the element and of its descendants
text_content(elem) ==
    elem.text \o concat([k \in 1..Len(elem.children) |->
                            text_content(elem.children[k]) \o elem.children[k].tail])

RECURSIVE descendants(_)
\* the descendants of an element in document order (the .// axis of xpath)
descendants(elem) ==
    concat([k \in 1..Len(elem.children) |-> <<elem.children[k]>> \o descendants(elem.children[k])])

\* elem.xpath('./tag'), and with a set of tags './/td | .//th' taken on the children
children_tagged(elem, tags) == SelectSeq(elem.children, LAMBDA c : c.tag \in tags)

\* elem.xpath('.//tag') for the tags of a set
descendants_tagged(elem, tags) == SelectSeq(descendants(elem), LAMBDA c : c.tag \in tags)

\* _get_li_text(li)
_get_li_text(li) ==
    li.text \o concat([k \in 1..Len(li.children) |->
        IF li.children[k].tag \notin {"ul", "ol"}
        THEN text_content(li.children[k]) \o li.children[k].tail
        ELSE <<>>])

\* the mark a child element adds in _extract_li_inline_content
li_child_mark(child) ==
    CASE child.tag \in {"strong", "b"} -> <<[type |-> "strong"]>>
      [] child.tag \in {"em", "i"} -> <<[type |-> "em"]>>
      [] child.tag = "code" -> <<[type |-> "code"]>>
      [] child.tag = "a" ->
            IF Get(child.attrs, "href", <<>>) # <<>>
            THEN <<[type |-> "link", attrs |-> [href |-> child.attrs["href"]]]>>
            ELSE <<>>
      [] OTHER -> <<>>

RECURSIVE li_process_node(_, _)
\* process_node of _extract_li_inline_content: nested lists are skipped, their tail kept
li_process_node(node, inherited_marks) ==
    inline_text(node.text, inherited_marks)
        \o concat([k \in 1..Len(node.children) |->
              IF node.children[k].tag \in {"ul", "ol"}
              THEN inline_text(node.children[k].tail, inherited_marks)
              ELSE li_process_node(node.children[k],
                                   inherited_marks \o li_child_mark(node.children[k]))
                       \o inline_text(node.children[k].tail, inherited_marks)])

\* _extract_li_inline_content(li)
_extract_li_inline_content(li) ==
    IF li_process_node(li, <<>>) # <<>> THEN li_process_node(li, <<>>)
    ELSE <<[type |-> "text", text |-> <<>>]>>

RECURSIVE create_bullet_list_adf(_)
RECURSIVE create_ordered_list_adf(_)
RECURSIVE li_loop(_, _, _, _)

\* the "for child in li" loop of _process_list_item from child k on: the final
\* item_content (text_parts is used only inside the loop)
li_loop(li, k, text_parts, item_content) ==
    IF k > Len(li.children) THEN item_content
    ELSE IF li.children[k].tag \in {"ul", "ol"}
    THEN li_loop(li, k + 1,
            (IF text_parts # <<>> /\ item_content = <<>> THEN <<>> ELSE text_parts)
                \o (IF strip(li.children[k].tail) # <<>> THEN <<strip(li.children[k].tail)>> ELSE <<>>),
            item_content
                \o (IF text_parts # <<>> /\ item_content = <<>>
                    THEN <<[type |-> "paragraph",
                            content |-> <<[type |-> "text", text |-> join(<<" ">>, text_parts)]>>]>>
                    ELSE <<>>)
                \o <<IF li.children[k].tag = "ul" THEN create_bullet_list_adf(li.children[k])
                     ELSE create_ordered_list_adf(li.children[k])>>)
    ELSE li_loop(li, k + 1,
            text_parts
                \o (IF li.children[k].text # <<>> THEN <<li.children[k].text>> ELSE <<>>)
                \o (IF li.children[k].tail # <<>> THEN <<li.children[k].tail>> ELSE <<>>),
            item_content)

\* _process_list_item(li)
_process_list_item(li) ==
    Let(li_loop(li, 1, IF strip(li.text) # <<>> THEN <<strip(li.text)>> ELSE <<>>, <<>>),
        LAMBDA item_content :
            IF item_content # <<>> THEN item_content
            ELSE IF strip(_get_li_text(li)) # <<>>
            THEN <<[type |-> "paragraph", content |-> _extract_li_inline_content(li)]>>
            ELSE <<[type |-> "paragraph", content |-> <<[type |-> "text", text |-> <<>>]>>]>>)

\* create_bullet_list_adf(elem)
create_bullet_list_adf(elem) ==
    [type |-> "bulletList",
     content |-> Map(children_tagged(elem, {"li"}),
                     LAMBDA li : [type |-> "listItem", content |-> _process_list_item(li)])]

\* create_ordered_list_adf(elem)
create_ordered_list_adf(elem) ==
    [type |-> "orderedList",
     content |-> Map(children_tagged(elem, {"li"}),
                     LAMBDA li : [type |-> "listItem", content |-> _process_list_item(li)])]

\* the cell node of a th or td
table_cell(cell) ==
    [type |-> IF cell.tag = "th" THEN "tableHeader" ELSE "tableCell",
     content |-> <<[type |-> "paragraph",
                    content |-> IF extract_inline_content(cell) # <<>>
                                THEN extract_inline_content(cell)
                                ELSE <<[type |-> "text", text |-> <<>>]>>]>>]

\* the rows of some tr elements whose cells have the given tags: rows without cells
\* are left out
table_rows(trs, cell_tags) ==
    concat([k \in 1..Len(trs) |->
        IF descendants_tagged(trs[k], cell_tags) # <<>>
        THEN <<[type |-> "tableRow",
                content |-> Map(descendants_tagged(trs[k], cell_tags), table_cell)]>>
        ELSE <<>>])

\* the tr children of the descendants with this tag: elem.xpath('.//tag/tr')
section_rows(elem, section) ==
    concat(Map(descendants_tagged(elem, {section}), LAMBDA sec : children_tagged(sec, {"tr"})))

\* create_table_adf(elem)
create_table_adf(elem) ==
    Let(table_rows(section_rows(elem, "thead"), {"th"})
            \o table_rows(section_rows(elem, "tbody"), {"td", "th"}),
        LAMBDA rows :
            [type |-> "table",
             content |-> IF rows # <<>> THEN rows
                         ELSE table_rows(descendants_tagged(elem, {"tr"}), {"td", "th"})])

RECURSIVE convert_element_to_adf(_)

\* create_blockquote_adf(elem), given the results of convert_element_to_adf on the
\* children of elem
create_blockquote_adf(elem, results) ==
    IF \E k \in 1..Len(results) : "raised" \in DOMAIN results[k]
    THEN [raised |-> "AttributeError"]
    ELSE Let(concat([k \in 1..Len(results) |-> results[k].returned]), LAMBDA quoted :
            [returned |-> <<[type |-> "blockquote",
                content |-> IF quoted # <<>> THEN quoted
                            ELSE IF extract_inline_content(elem) # <<>>
                            THEN <<[type |-> "paragraph",
                                    content |-> extract_inline_content(elem)]>>
                            ELSE <<>>]>>])

\* convert_element_to_adf(elem): the node in a sequence (empty for None), or the
\* exception that leaves the function; pre elements are not part of the runs
convert_element_to_adf(elem) ==
    CASE \E l \in 1..6 : HeadingTags[l] = elem.tag ->
            [returned |-> <<[type |-> "heading",
                             attrs |-> [level |-> CHOOSE l \in 1..6 : HeadingTags[l] = elem.tag],
                             content |-> extract_inline_content(elem)]>>]
      [] \/ elem.tag = "p"
         \/ elem.tag = "span" /\ contains(Get(elem.attrs, "class", <<>>),
                                          <<"p", "a", "r", "a", "g", "r", "a", "p", "h">>) ->
            [returned |-> IF extract_inline_content(elem) # <<>>
                          THEN <<[type |-> "paragraph", content |-> extract_inline_content(elem)]>>
                          ELSE <<>>]
      [] elem.tag = "ul" -> [returned |-> <<create_bullet_list_adf(elem)>>]
      [] elem.tag = "ol" -> [returned |-> <<create_ordered_list_adf(elem)>>]
      [] elem.tag = "table" -> [returned |-> <<create_table_adf(elem)>>]
      [] elem.tag = "marimo-table" -> create_marimo_table_adf(elem)
      [] elem.tag = "marimo-ui-element" ->
            first_result([k \in 1..Len(elem.children) |-> convert_element_to_adf(elem.children[k])])
      [] elem.tag = "hr" -> [returned |-> <<[type |-> "rule"]>>]
      [] elem.tag = "blockquote" ->
            create_blockquote_adf(elem,
                [k \in 1..Len(elem.children) |-> convert_element_to_adf(elem.children[k])])
      [] elem.tag # "pre" -> [returned |-> <<>>]

\* html_to_adf on the parsed tree (no tree for empty or blank html_content)
html_to_adf(parsed) ==
    IF parsed = <<>> THEN [returned |-> <<>>]
    ELSE Let(Map(_get_block_children(parsed[1]), convert_element_to_adf), LAMBDA results :
            IF \E k \in 1..Len(results) : "raised" \in DOMAIN results[k]
            THEN [raised |-> "AttributeError"]
            ELSE [returned |-> html_add_spacing_before_blocks(
                      concat([k \in 1..Len(results) |-> results[k].returned]))])

\* html_to_adf is called
ConvertHtml ==
    /\ pc = "html"
    /\ out' = html_to_adf(tree)
    /\ pc' = "done"
    /\ UNCHANGED <<tree, input, markdown, lines, i, content, adf>>

\* ------------------------------------------------------------- the runs

\* most items of a generated checkbox list
MaxTasks == 2
\* deepest generated heading
MaxLevel == 6
\* most segments of a generated one-line paragraph
MaxSegs == 3
\* most columns and most data rows of a generated table
MaxCols == 3
MaxDataRows == 1
\* longest generated plain line
MaxPlainLen == 3
\* most lines of a generated bullet run, and the most spaces before a bullet
MaxBulletLines == 3
MaxSpaces == 5
\* longest generated staircase of bullets, each line one level deeper
MaxDeep == 8

\* the non-empty sequences over S of length at most n
SeqsUpTo(S, n) == UNION {[1..k -> S] : k \in 1..n}

DoneLine == <<"-", " ", "[", "x", "]", " ", "d", "o", "n", "e">>
PendingLine == <<"-", " ", "[", " ", "]", " ", "p", "e", "n", "d", "i", "n", "g">>

\* the checkbox line of a task state
TaskLine(state) == IF state = "DONE" THEN DoneLine ELSE PendingLine

Titles == {<<"T">>, <<"T", "i", " ", "t", "l", "e">>}

\* "#" * level + " " + title
HeadingLine(level, title) == Repeat("#", level) \o <<" ">> \o title

\* the segments of the generated one-line paragraphs: plain text and marked spans
Segments ==
    {<<"a">>, <<" ">>, <<"*", "*", "b", "*", "*">>, <<"*", "b", "*">>, <<Backtick, "b", Backtick>>, <<"~", "~", "b", "~", "~">>, <<"[", "b", "]", "(", "u", ")">>}

InlineExample == <<"*", "*", "b", "o", "l", "d", "*", "*", " ", "a", "n", "d", " ", "*", "e", "m", "*", " ", "a", "n", "d", " ", Backtick, "c", "o", "d", "e", Backtick>>

CellTexts == {<<"a">>, <<>>}

\* the rows of n cells that hold some text
GridRows(n) == {r \in [1..n -> CellTexts] : \E k \in 1..n : r[k] # <<>>}

\* header row and data rows, all of the same width
Grids ==
    UNION {{<<h>> \o d : h \in GridRows(n), d \in {<<>>} \cup SeqsUpTo(GridRows(n), MaxDataRows)}
              : n \in 1..MaxCols}

\* "| a | b |"
GridLine(cells) == <<"|", " ">> \o join(<<" ", "|", " ">>, cells) \o <<" ", "|">>

\* "|---|---|"
SeparatorLine(n) == <<"|">> \o concat([k \in 1..n |-> <<"-", "-", "-", "|">>])

\* header line, separator line, data lines
GridMarkdown(g) ==
    join(<<NL>>, <<GridLine(g[1]), SeparatorLine(Len(g[1]))>> \o Map(Tail(g), GridLine))

PlainLines == {l \in SeqsUpTo({"a", "b", " "}, MaxPlainLen) : \E k \in 1..Len(l) : l[k] # " "}

\* a bullet line after n spaces
BulletLine(n) == Repeat(" ", n) \o <<"-", " ", "a">>

\* k bullet lines, line j indented by 2 * (j - 1) spaces
Staircase(k) == join(<<NL>>, [j \in 1..k |-> BulletLine(2 * (j - 1))])

MiscDocs ==
    {<<Backtick, Backtick, Backtick, "p", "y", NL, "x", NL, Backtick, Backtick, Backtick, NL, "z">>,
     <<" ", " ", Backtick, Backtick, Backtick, NL, " ", " ", "x", NL, " ", "#", " ", "y", NL, " ", " ", Backtick, Backtick, Backtick>>,
     <<"1", ".", " ", "a", NL, "2", ".", " ", "*", "b", "*">>,
     <<">", " ", "a", NL, ">", " ", "b">>,
     <<"-", "-", "-">>,
     <<"#", " ", "T", NL, NL, "#", "#", " ", "U", NL, "-", "-", "-", NL, "a">>,
     <<"*", " ", "a", NL, "+", " ", "b">>,
     <<"a", NL, "#", " ", "T">>,
     <<"a", NL, "*", "*", "*", NL, "_", "_", "_">>}

\* most '#' characters at the start of a generated line
MaxHashes == 8

\* what follows the '#' characters of a generated line
HashTails == {<<" ", "T">>, <<"T">>, <<>>}

\* the lines that may follow the line "a" of a generated paragraph
BlockStarts ==
    {<<"#", " ", "h">>, Fence, <<"-", "-", "-">>, <<"*", "*", "*">>, <<"_", "_", "_">>,
     <<"-", " ", "b">>, <<" ", " ", "-", " ", "b">>, <<"*", " ", "b">>, <<"+", " ", "b">>,
     <<"1", ".", " ", "b">>, <<" ", " ", "1", ".", " ", "b">>, <<">", " ", "q">>,
     <<"|", "x", "|">>}

\* most lines of a generated ordered list
MaxOrderedLines == 3

\* an ordered-list line indented by n spaces
OrderedLine(n) == Repeat(" ", n) \o <<"1", ".", " ", "a">>

\* texts on which a step of the main loop does not move the line cursor
StuckDocs ==
    {<<"-", "-", "-", "-">>,
     <<"-", "-", "-", "a">>,
     <<"a", NL, "-", "-", "-", "-">>,
     <<"|", "-", "-", "-", "|", "-", "-", "-", "|">>,
     <<"|", " ", "a", " ", "|", NL, NL, "|", "-", "-", "-", "|">>,
     <<"|", ":", "-", ":", "|", NL, "|", " ", "|">>}

\* the cases a run starts with, each with the markdown text it stands for
MaxBodyLines == 2

\* lines inside a fence: blank, looking like a heading, a list item, a rule, a table
\* row, a quote, and plain lines with 0, 1, 2 and 4 leading spaces
BodyLines ==
    {<<>>, <<"#", " ", "h">>, <<"-", " ", "x">>, <<"-", "-", "-">>, <<"|", " ", "a", " ", "|">>,
     <<"1", ".", " ", "a">>, <<">", " ", "q">>, <<"x">>, <<" ", "x">>, <<" ", " ", "x">>,
     <<" ", " ", " ", " ", "x">>}

\* a fenced block: an optional paragraph line before, the opening fence indented by
\* indent spaces, the body lines, and, if closed, the closing fence and a line after
FencedDoc(before, indent, body, closed) ==
    join(<<NL>>,
         (IF before THEN <<<<"a">>>> ELSE <<>>)
         \o <<Repeat(" ", indent) \o Fence>>
         \o body
         \o (IF closed THEN <<Repeat(" ", indent) \o Fence, <<"b">>>> ELSE <<>>))

\* bullet line number k: n leading spaces, the markers taken in turn, the text k
NumberedBulletLine(n, k) ==
    Repeat(" ", n) \o <<<<"-">>, <<"*">>, <<"+">>>>[(k % 3) + 1] \o <<" ">> \o IntToStr(k)

Cases ==
    {[input |-> [kind |-> "tasks", states |-> st], markdown |-> join(<<NL>>, Map(st, TaskLine))]
        : st \in SeqsUpTo({"DONE", "TODO"}, MaxTasks)}
    \cup {[input |-> [kind |-> "heading", level |-> l, title |-> t], markdown |-> HeadingLine(l, t)]
        : l \in 1..MaxLevel, t \in Titles}
    \cup {[input |-> [kind |-> "inline"], markdown |-> m]
        : m \in {concat(sg) : sg \in SeqsUpTo(Segments, MaxSegs)} \cup {InlineExample}}
    \cup {[input |-> [kind |-> "table", grid |-> g], markdown |-> GridMarkdown(g)] : g \in Grids}
    \cup {[input |-> [kind |-> "plain", nlines |-> 1], markdown |-> l \o t]
        : l \in PlainLines, t \in {<<>>, <<NL>>}}
    \cup {[input |-> [kind |-> "plain", nlines |-> 2], markdown |-> l \o <<NL, "b">>]
        : l \in PlainLines}
    \cup {[input |-> [kind |-> "bullets"], markdown |-> join(<<NL>>, Map(sp, BulletLine))]
        : sp \in SeqsUpTo(0..MaxSpaces, MaxBulletLines)}
    \cup {[input |-> [kind |-> "bullets"], markdown |-> Staircase(k)] : k \in 1..MaxDeep}
    \cup {[input |-> [kind |-> "misc"], markdown |-> m] : m \in MiscDocs}
    \cup {[input |-> [kind |-> "hashes", hashes |-> n], markdown |-> Repeat("#", n) \o t]
        : n \in 1..MaxHashes, t \in HashTails}
    \cup {[input |-> [kind |-> "para_then", then |-> b], markdown |-> <<"a", NL>> \o b]
        : b \in BlockStarts}
    \cup {[input |-> [kind |-> "ordered", indents |-> ind],
           markdown |-> join(<<NL>>, Map(ind, OrderedLine))]
        : ind \in SeqsUpTo({0, 2, 4}, MaxOrderedLines)}
    \cup {[input |-> [kind |-> "stuck"], markdown |-> m] : m \in StuckDocs}
    \cup {[input |-> [kind |-> "numbered", spaces |-> sp],
           markdown |-> join(<<NL>>, [k \in 1..Len(sp) |-> NumberedBulletLine(sp[k], k)])]
        : sp \in SeqsUpTo(0..MaxSpaces, MaxBulletLines)}
    \cup {[input |-> [kind |-> "fence", before |-> bf, indent |-> ind, body |-> bd, closed |-> cl],
           markdown |-> FencedDoc(bf, ind, bd, cl)]
        : bf \in BOOLEAN, ind \in {0, 2}, bd \in SeqsUpTo(BodyLines, MaxBodyLines),
          cl \in BOOLEAN}

\* markdown_to_adf is entered with one of the cases
Init ==
    \E c \in Cases :
        /\ input = c.input
        /\ markdown = c.markdown
        /\ lines = split(c.markdown, NL)
        /\ i = 0
        /\ content = <<>>
        /\ adf = None
        /\ out = None
        /\ tree = <<>>
        /\ pc = "parse"

Next ==
    \/ EmptyLine
    \/ Heading
    \/ CodeBlock
    \/ Rule
    \/ BulletList
    \/ OrderedList
    \/ Blockquote
    \/ Table
    \/ Paragraph
    \/ Build
    \/ Serialize

Spec == Init /\ [][Next]_vars

\* ------------------------------------------- runs of the spacing pass

\* most nodes of a generated top-level sequence
MaxNodes == 3

TextNode(t) == [type |-> "text", text |-> t]

EmptyParagraph == [type |-> "paragraph", content |-> <<>>]

\* the paragraph holding exactly this text
PlainParagraph(t) == [type |-> "paragraph", content |-> <<TextNode(t)>>]

HeadingNode(level) ==
    [type |-> "heading", attrs |-> [level |-> level], content |-> <<TextNode(<<"T">>)>>]

\* the nodes of the generated sequences; one heading carries no attrs (level defaults to 1)
SpacingNodes ==
    {HeadingNode(1), HeadingNode(2), HeadingNode(3),
     [type |-> "heading", content |-> <<TextNode(<<"T">>)>>],
     [type |-> "rule"],
     [type |-> "paragraph", content |-> <<TextNode(<<"a">>)>>],
     EmptyParagraph}

\* a content sequence is about to be spaced
InitSpacing ==
    \E c \in {<<>>} \cup SeqsUpTo(SpacingNodes, MaxNodes) :
        /\ input = [kind |-> "spacing", original |-> c]
        /\ content = c
        /\ markdown = <<>>
        /\ lines = <<>>
        /\ i = 0
        /\ adf = None
        /\ out = None
        /\ tree = <<>>
        /\ pc = "pass0"

\* add_spacing_before_blocks of adf_converter.py is applied to content
SpacingPass ==
    /\ pc \in {"pass0", "pass1"}
    /\ content' = add_spacing_before_blocks(content)
    /\ pc' = IF pc = "pass0" THEN "pass1" ELSE "pass2"
    /\ UNCHANGED <<tree, input, markdown, lines, i, adf, out>>

\* add_spacing_before_blocks of html_to_adf.py is applied to content
HtmlSpacingPass ==
    /\ pc \in {"pass0", "pass1"}
    /\ content' = html_add_spacing_before_blocks(content)
    /\ pc' = IF pc = "pass0" THEN "pass1" ELSE "pass2"
    /\ UNCHANGED <<tree, input, markdown, lines, i, adf, out>>

NextSpacing ==
    \/ SpacingPass
    \/ HtmlSpacingPass

SpecSpacing == InitSpacing /\ [][NextSpacing]_vars

\* ------------------------------------------- runs of adf_to_markdown

UnknownTexts == {<<"a">>, <<"b", " ", "c">>}

UnknownShapes == {"flat", "nested", "mixed", "wrapped"}

\* a node of unrecognized type holding the text nodes t[1], t[2], t[3] in this order
UnknownNode(shape, t) ==
    CASE shape = "flat" ->
            [type |-> "customBlock", content |-> <<TextNode(t[1]), TextNode(t[2]), TextNode(t[3])>>]
      [] shape = "nested" ->
            [type |-> "customBlock",
             content |-> <<TextNode(t[1]),
                           [type |-> "inner",
                            content |-> <<TextNode(t[2]),
                                          [type |-> "deep", content |-> <<TextNode(t[3])>>]>>]>>]
      [] shape = "mixed" ->
            [type |-> "customBlock",
             content |-> <<[type |-> "text", text |-> t[1], marks |-> <<[type |-> "strong"]>>],
                           [type |-> "hardBreak"],
                           TextNode(t[2]),
                           [type |-> "emoji", attrs |-> [text |-> <<":", ")">>]],
                           TextNode(t[3])>>]
      [] shape = "wrapped" ->
            [type |-> "customBlock", attrs |-> [id |-> 1],
             content |-> <<[type |-> "paragraph", content |-> <<TextNode(t[1]), TextNode(t[2])>>],
                           [type |-> "other", content |-> <<TextNode(t[3])>>]>>]

\* the root types that are not 'doc'; None stands for a root without a type
RootTypes == {"paragraph", "customBlock", "heading", "bulletList", "Doc", None}

\* what a root may hold under content, wrapped in a sequence; <<>> is a root without content
RootContents ==
    {<<>>, <<<<>>>>, <<<<[type |-> "paragraph", content |-> <<TextNode(<<"p">>)>>]>>>>,
     <<<<TextNode(<<"a">>), [type |-> "rule"]>>>>}

\* the root with this type and this content
RootNode(t, c) ==
    IF t = None
    THEN (IF c = <<>> THEN [version |-> 1] ELSE [version |-> 1, content |-> c[1]])
    ELSE (IF c = <<>> THEN [version |-> 1, type |-> t]
          ELSE [version |-> 1, type |-> t, content |-> c[1]])

\* the doc root holding these blocks
Doc(c) == [version |-> 1, type |-> "doc", content |-> c]

\* most top-level blocks of a generated document
MaxBlocks == 3

\* the top-level blocks of the generated documents; three of them render to nothing
BlockNodes ==
    {EmptyParagraph, PlainParagraph(<<"a">>), PlainParagraph(<<"b">>), [type |-> "rule"],
     HeadingNode(2), [type |-> "bulletList", content |-> <<>>], [type |-> "paragraph"]}

\* the node types generated without their content field
NoContentKinds ==
    {"paragraph", "heading", "bulletList", "orderedList", "listItem", "table", "tableRow",
     "blockquote", "doc"}

\* a block in which the node of this type has no content field
NoContentNode(which) ==
    CASE which = "heading" -> [type |-> "heading", attrs |-> [level |-> 2]]
      [] which = "listItem" -> [type |-> "bulletList", content |-> <<[type |-> "listItem"]>>]
      [] which = "tableRow" -> [type |-> "table", content |-> <<[type |-> "tableRow"]>>]
      [] OTHER -> [type |-> which]

\* the document holding that block between the paragraphs "a" and "b"
NoContentDoc(which) ==
    IF which = "doc" THEN [version |-> 1, type |-> "doc"]
    ELSE Doc(<<PlainParagraph(<<"a">>), NoContentNode(which), PlainParagraph(<<"b">>)>>)

\* a node of unrecognized type holding the text "x"
UnknownInline == [type |-> "customInline", content |-> <<TextNode(<<"x">>)>>]

UnknownPositions ==
    {"block", "inline", "heading", "quote", "bulletList", "orderedList", "listItem",
     "table", "tableRow", "tableCell"}

\* the block that holds UnknownInline at this position
UnknownAt(pos) ==
    CASE pos = "block" -> UnknownInline
      [] pos = "inline" ->
            [type |-> "paragraph",
             content |-> <<TextNode(<<"a">>), UnknownInline, TextNode(<<"b">>)>>]
      [] pos = "heading" ->
            [type |-> "heading", attrs |-> [level |-> 1], content |-> <<UnknownInline>>]
      [] pos = "quote" -> [type |-> "blockquote", content |-> <<UnknownInline>>]
      [] pos = "bulletList" -> [type |-> "bulletList", content |-> <<UnknownInline>>]
      [] pos = "orderedList" -> [type |-> "orderedList", content |-> <<UnknownInline>>]
      [] pos = "listItem" ->
            [type |-> "bulletList",
             content |-> <<[type |-> "listItem",
                            content |-> <<PlainParagraph(<<"a">>), UnknownInline>>]>>]
      [] pos = "table" -> [type |-> "table", content |-> <<UnknownInline>>]
      [] pos = "tableRow" ->
            [type |-> "table", content |-> <<[type |-> "tableRow", content |-> <<UnknownInline>>]>>]
      [] pos = "tableCell" ->
            [type |-> "table",
             content |-> <<[type |-> "tableRow",
                            content |-> <<[type |-> "tableCell",
                                           content |-> <<UnknownInline>>]>>]>>]

\* most marks on a generated text node
MaxMarks == 3

MarkTypes == {"strong", "em", "code", "strike"}

\* the lists of two or more distinct marks
MarkLists ==
    {q \in SeqsUpTo(MarkTypes, MaxMarks) :
        Len(q) >= 2 /\ \A a, b \in 1..Len(q) : q[a] = q[b] => a = b}

\* the paragraph holding the text "t" with these marks, in this order
MarkedParagraph(q) ==
    [type |-> "paragraph",
     content |-> <<[type |-> "text", text |-> <<"t">>,
                    marks |-> [k \in 1..Len(q) |-> [type |-> q[k]]]]>>]

\* the values handed to adf_to_markdown, each with its description
AdfCases ==
    {[input |-> [kind |-> "unknown", shape |-> sh, texts |-> t, prefix |-> <<>>],
      adf |-> [version |-> 1, type |-> "doc", content |-> <<UnknownNode(sh, t)>>]]
        : sh \in UnknownShapes, t \in [1..3 -> UnknownTexts]}
    \cup {[input |-> [kind |-> "unknown", shape |-> sh, texts |-> t, prefix |-> <<"p">>],
           adf |-> [version |-> 1, type |-> "doc",
                    content |-> <<[type |-> "paragraph", content |-> <<TextNode(<<"p">>)>>],
                                  UnknownNode(sh, t)>>]]
        : sh \in UnknownShapes, t \in [1..3 -> UnknownTexts]}
    \cup {[input |-> [kind |-> "root"], adf |-> RootNode(t, c)] : t \in RootTypes, c \in RootContents}
    \cup {[input |-> [kind |-> "blocks", blocks |-> c], adf |-> Doc(c)]
        : c \in {<<>>} \cup SeqsUpTo(BlockNodes, MaxBlocks)}
    \cup {[input |-> [kind |-> "nocontent", which |-> w], adf |-> NoContentDoc(w)]
        : w \in NoContentKinds}
    \cup {[input |-> [kind |-> "unknown_at", position |-> pos], adf |-> Doc(<<UnknownAt(pos)>>)]
        : pos \in UnknownPositions}
    \cup {[input |-> [kind |-> "marks", marks |-> q], adf |-> Doc(<<MarkedParagraph(q)>>)]
        : q \in MarkLists}

\* adf_to_markdown is about to be called on one of the values
InitSerialize ==
    \E c \in AdfCases :
        /\ input = c.input
        /\ adf = c.adf
        /\ markdown = <<>>
        /\ lines = <<>>
        /\ i = 0
        /\ content = <<>>
        /\ out = None
        /\ tree = <<>>
        /\ pc = "built"

NextSerialize == Serialize

SpecSerialize == InitSerialize /\ [][NextSerialize]_vars

\* ------------------------------------------- runs of html_to_adf

\* an element of the parsed tree
Elem(tag, attrs, text, children, tail) ==
    [tag |-> tag, attrs |-> attrs, text |-> text, children |-> children, tail |-> tail]

\* <p>text</p>
PElem(text) == Elem("p", <<>>, text, <<>>, <<>>)

\* the values of the data-data attribute (none in the first), each with what it is:
\* absent, unparsable, parsable but not a non-empty list of objects, or rows
Payloads ==
    {[data |-> <<>>, class |-> "absent"],
     [data |-> <<<<>>>>, class |-> "absent"],
     [data |-> <<<<"x">>>>, class |-> "unparsable"],
     [data |-> <<<<"[">>>>, class |-> "unparsable"],
     [data |-> <<<<"[", "1", ",", " ", "2", "]">>>>, class |-> "not_rows"],
     [data |-> <<<<"[", "0", "]">>>>, class |-> "not_rows"],
     [data |-> <<<<"[", "]">>>>, class |-> "not_rows"],
     [data |-> <<<<"{", "}">>>>, class |-> "not_rows"],
     [data |-> <<<<"5">>>>, class |-> "not_rows"],
     [data |-> <<<<"0">>>>, class |-> "not_rows"],
     [data |-> <<<<"n", "u", "l", "l">>>>, class |-> "not_rows"],
     [data |-> <<<<"t", "r", "u", "e">>>>, class |-> "not_rows"],
     [data |-> <<<<"\"", "a", "b", "c", "\"">>>>, class |-> "unparsable"],
     [data |-> <<<<"[", "\"", "a", "\"", "]">>>>, class |-> "not_rows"],
     [data |-> <<<<"[", "[", "1", "]", "]">>>>, class |-> "not_rows"],
     [data |-> <<<<"[", "{", "}", "]">>>>, class |-> "rows"],
     [data |-> <<<<"[", "n", "u", "l", "l", "]">>>>, class |-> "not_rows"],
     [data |-> <<<<"[", "{", "\"", "a", "\"", ":", " ", "1", "}", "]">>>>, class |-> "rows"],
     [data |-> <<<<"[", "{", "\"", "a", "\"", ":", " ", "1", "}", ",", " ", "5", "]">>>>, class |-> "not_rows"],
     [data |-> <<<<"[", "{", "\"", "a", "\"", ":", " ", "1", "}", ",", " ", "{", "\"", "b", "\"", ":", " ", "2", "}", "]">>>>, class |-> "rows"],
     [data |-> <<<<"[", "{", "\"", "a", "\"", ":", " ", "1", "}", ",", " ", "n", "u", "l", "l", "]">>>>, class |-> "not_rows"],
     [data |-> <<<<"\"", "[", "{", "\"", "a", "\"", ":", " ", "1", "}", "]", "\"">>>>, class |-> "rows"],
     [data |-> <<<<"&", "q", "u", "o", "t", ";", "[", "{", "&", "q", "u", "o", "t", ";", "a", "&", "q", "u", "o", "t", ";", ":", " ", "1", "}", "]", "&", "q", "u", "o", "t", ";">>>>, class |-> "rows"],
     [data |-> <<<<"\"", "[", "{", "\\", "\"", "a", "\\", "\"", ":", " ", "1", "}", "]", "\"">>>>, class |-> "rows"],
     [data |-> <<<<"[", "{", "\"", "a", "\"", ":", " ", "\"", "x", "\"", "}", "]">>>>, class |-> "rows"],
     [data |-> <<<<"[", "{", "\"", "a", "\"", ":", " ", "n", "u", "l", "l", "}", "]">>>>, class |-> "rows"],
     [data |-> <<<<"[", "t", "r", "u", "e", "]">>>>, class |-> "not_rows"],
     [data |-> <<<<"{", "\"", "a", "\"", ":", " ", "1", "}">>>>, class |-> "not_rows"],
     [data |-> <<<<"[", "1">>>>, class |-> "unparsable"],
     [data |-> <<<<" ", "[", "{", "\"", "a", "\"", ":", " ", "1", "}", "]", " ">>>>, class |-> "rows"],
     [data |-> <<<<"[", "{", "\"", "a", "\"", ":", " ", "t", "r", "u", "e", "}", "]">>>>, class |-> "rows"],
     [data |-> <<<<"&", "q", "u", "o", "t", ";", "[", "1", "]", "&", "q", "u", "o", "t", ";">>>>, class |-> "not_rows"]}

\* <marimo-table data-data=...>
MarimoTable(data) ==
    Elem("marimo-table", IF data = <<>> THEN <<>> ELSE ("data-data" :> data[1]), <<>>, <<>>, <<>>)

HtmlLayouts == {"root", "between", "wrapped"}

\* the tree holding the marimo-table in this layout
MarimoTree(layout, data) ==
    CASE layout = "root" -> MarimoTable(data)
      [] layout = "between" ->
            Elem("div", <<>>, <<>>,
                 <<PElem(<<"a">>), MarimoTable(data), PElem(<<"b">>)>>, <<>>)
      [] layout = "wrapped" ->
            Elem("div", <<>>, <<>>,
                 <<Elem("marimo-ui-element", <<>>, <<>>, <<MarimoTable(data)>>, <<>>),
                   Elem("hr", <<>>, <<>>, <<>>, <<>>),
                   Elem("h2", <<>>, <<"T">>, <<>>, <<>>)>>, <<>>)

\* the documents holding a marimo-table
MarimoCases ==
    {[input |-> [kind |-> "marimo", layout |-> layout, class |-> p.class, data |-> p.data],
      tree |-> MarimoTree(layout, p.data)] : layout \in HtmlLayouts, p \in Payloads}

\* the inline elements that give a mark, the a element with and without href
InlineElements ==
    {[tag |-> t, href |-> FALSE]
        : t \in {"strong", "b", "em", "i", "code", "a", "u", "s", "del", "strike"}}
    \cup {[tag |-> "a", href |-> TRUE]}

\* the elements that hold inline content
InlineContainers == {"p", "h3", "td", "li"}

\* x<tag>y</tag>z inside a container, the container inside the elements it needs
InlineIn(container, e) ==
    Let(Elem(container, <<>>, <<"x">>,
             <<Elem(e.tag, IF e.href THEN ("href" :> <<"u">>) ELSE <<>>, <<"y">>, <<>>, <<"z">>)>>,
             <<>>),
        LAMBDA holder :
            CASE container = "td" ->
                    Elem("table", <<>>, <<>>, <<Elem("tr", <<>>, <<>>, <<holder>>, <<>>)>>, <<>>)
              [] container = "li" -> Elem("ul", <<>>, <<>>, <<holder>>, <<>>)
              [] OTHER -> holder)

InlineInCases ==
    {[input |-> [kind |-> "inline_in", container |-> c, tag |-> e.tag, href |-> e.href],
      tree |-> InlineIn(c, e)] : c \in InlineContainers, e \in InlineElements}

\* texts around inline elements: none, one space, two spaces, a newline, a letter
TailTexts == {<<>>, <<" ">>, <<" ", " ">>, <<NL>>, <<"x">>}

\* <p>t1<strong>t2<em>t3</em>t4</strong>t5</p> for a sequence t of five texts
NestedMarks(t) ==
    Elem("p", <<>>, t[1],
         <<Elem("strong", <<>>, t[2], <<Elem("em", <<>>, t[3], <<>>, t[4])>>, t[5])>>, <<>>)

TailCases ==
    {[input |-> [kind |-> "tails", texts |-> t], tree |-> NestedMarks(t)]
        : t \in [1..5 -> TailTexts]}

MaxWrap == 2

\* block elements: a paragraph, a heading, a rule and a list
BlockElements ==
    {PElem(<<"a">>), Elem("h2", <<>>, <<"T">>, <<>>, <<>>), Elem("hr", <<>>, <<>>, <<>>, <<>>),
     Elem("ul", <<>>, <<>>, <<Elem("li", <<>>, <<"a">>, <<>>, <<>>)>>, <<>>)}

RECURSIVE Wrapped(_, _, _)
\* the element inside n wrapper elements
Wrapped(elem, wrapper, n) ==
    IF n = 0 THEN elem ELSE Elem(wrapper, <<>>, <<>>, <<Wrapped(elem, wrapper, n - 1)>>, <<>>)

WrapContexts == {"root", "markdown", "blockquote"}

\* a document with the element and a paragraph after it: children of the root div, of
\* a span.markdown root, or of a blockquote
InContext(context, elem) ==
    CASE context = "root" -> Elem("div", <<>>, <<>>, <<elem, PElem(<<"b">>)>>, <<>>)
      [] context = "markdown" ->
            Elem("span", ("class" :> <<"m", "a", "r", "k", "d", "o", "w", "n">>), <<>>,
                 <<elem, PElem(<<"b">>)>>, <<>>)
      [] context = "blockquote" ->
            Elem("div", <<>>, <<>>,
                 <<Elem("blockquote", <<>>, <<>>, <<elem, PElem(<<"b">>)>>, <<>>)>>, <<>>)

WrapCases ==
    {[input |-> [kind |-> "wrapped", context |-> c, block |-> b, wrapper |-> w, depth |-> n],
      tree |-> InContext(c, Wrapped(b, w, n))]
        : c \in WrapContexts, b \in BlockElements, w \in {"div", "marimo-ui-element"},
          n \in 0..MaxWrap}

\* <ul><li>n</li></ul> or <ol><li>n</li></ol> followed by the text tail
SubList(tag, tail) ==
    Elem(tag, <<>>, <<>>, <<Elem("li", <<>>, <<"n">>, <<>>, <<>>)>>, tail)

\* <ul><li>before<ul>..</ul>after1<ol>..</ol>after2</li></ul>, the ol only if second
NestedLi(before, after1, second, after2) ==
    Elem("ul", <<>>, <<>>,
         <<Elem("li", <<>>, before,
                <<SubList("ul", after1)>> \o (IF second THEN <<SubList("ol", after2)>> ELSE <<>>),
                <<>>)>>,
         <<>>)

NestedLiCases ==
    {[input |-> [kind |-> "nested_li", before |-> b, after1 |-> a1, second |-> sc, after2 |-> a2],
      tree |-> NestedLi(b, a1, sc, a2)]
        : b \in {<<>>, <<"a">>}, a1 \in {<<>>, <<"z">>}, sc \in BOOLEAN, a2 \in {<<>>, <<"w">>}}

HtmlCases == MarimoCases \cup InlineInCases \cup TailCases \cup WrapCases \cup NestedLiCases

\* html_to_adf is about to be called on a parsed document
InitHtml ==
    \E c \in HtmlCases :
        /\ input = c.input
        /\ tree = <<c.tree>>
        /\ markdown = <<>>
        /\ lines = <<>>
        /\ i = 0
        /\ content = <<>>
        /\ adf = None
        /\ out = None
        /\ pc = "html"

NextHtml == ConvertHtml

SpecHtml == InitHtml /\ [][NextHtml]_vars

\* ------------------------------------------- runs of parse_inline_markdown

MaxPieces == 4

\* pieces of inline text: plain characters, delimiters, a whole link and its parts
InlinePieces ==
    {<<"a">>, <<" ">>, <<"*">>, <<"*", "*">>, <<Backtick>>, <<"~", "~">>,
     <<"[", "a", "]", "(", "u", ")">>, <<"]", "(">>}

\* the texts of n pieces
InlineTexts(n) ==
    IF n = 0 THEN {<<>>}
    ELSE {concat(ps) : ps \in [1..n -> InlinePieces]}

\* parse_inline_markdown is about to be called on a text of up to MaxPieces pieces
InitInline ==
    \E n \in 0..MaxPieces : \E text \in InlineTexts(n) :
        /\ input = [kind |-> "inline"]
        /\ markdown = text
        /\ lines = <<>>
        /\ i = 0
        /\ content = <<>>
        /\ adf = None
        /\ out = <<>>
        /\ tree = <<>>
        /\ pc = "inline"

NextInline == InlineMatch \/ InlineRest \/ InlineReturn

SpecInline == InitInline /\ [][NextInline]_vars

\* ------------------------------------------- runs of round trips

MaxTrips == 1

\* markdown_to_adf is called on the markdown adf_to_markdown returned: the document
\* it was made from is kept in input.before
Reparse ==
    /\ pc = "done"
    /\ "returned" \in DOMAIN out
    /\ input.trips < MaxTrips
    /\ markdown' = out.returned
    /\ lines' = split(out.returned, NL)
    /\ i' = 0
    /\ content' = <<>>
    /\ input' = [input EXCEPT !.trips = @ + 1, !.before = <<adf>>]
    /\ pc' = "parse"
    /\ UNCHANGED <<tree, adf, out>>

MaxTripItems == 5

\* the list item without nested list
LeafItem == [type |-> "listItem", content |-> <<PlainParagraph(<<"a">>)>>]

RECURSIVE ItemCount(_)
\* the number of list items in a sequence of list items and in their nested lists
ItemCount(items) ==
    IF items = <<>> THEN 0
    ELSE 1 + (IF Len(items[1].content) > 1 THEN ItemCount(items[1].content[2].content) ELSE 0)
           + ItemCount(Tail(items))

RECURSIVE ItemsUpTo(_, _)
RECURSIVE ListsUpTo(_, _)

\* the list items of at most n items in all and at most d levels: one paragraph of
\* plain text, optionally followed by one nested bulletList
ItemsUpTo(d, n) ==
    {LeafItem}
    \cup (IF d > 1 /\ n > 1
          THEN {[type |-> "listItem",
                 content |-> <<PlainParagraph(<<"b", " ", "c">>),
                               [type |-> "bulletList", content |-> l]>>]
                    : l \in ListsUpTo(d - 1, n - 1)}
          ELSE {})

\* the non-empty sequences of list items of at most n items in all, at most d levels
ListsUpTo(d, n) ==
    IF n = 0 THEN {}
    ELSE UNION {{<<it>>}
                \cup {<<it>> \o rest
                        : rest \in ListsUpTo(d, n - ItemCount(<<it>>))}
                    : it \in ItemsUpTo(d, n)}

\* the documents whose only block is a bulletList nested at most 3 levels
BulletDocs == {Doc(<<[type |-> "bulletList", content |-> l]>>) : l \in ListsUpTo(3, MaxTripItems)}

MaxTripBlocks == 3

\* headings, rules and plain paragraphs of one and two lines
TripBlocks ==
    {<<"#", " ", "T">>, <<"#", "#", " ", "T">>, <<"-", "-", "-">>, <<"*", "*", "*">>,
     <<"a">>, <<"a", NL, "b">>}

RECURSIVE TripDocs(_)
\* the documents of n blocks, each separated from the next by a newline or a blank line
TripDocs(n) ==
    IF n = 1 THEN TripBlocks
    ELSE {m \o sep \o b : m \in TripDocs(n - 1), sep \in {<<NL>>, <<NL, NL>>}, b \in TripBlocks}

\* adf_to_markdown is about to be called on a bullet document
InitTripAdf ==
    \E doc \in BulletDocs :
        /\ input = [kind |-> "bullet_doc", trips |-> 0, before |-> <<>>, doc |-> doc]
        /\ adf = doc
        /\ markdown = <<>>
        /\ lines = <<>>
        /\ i = 0
        /\ content = <<>>
        /\ out = None
        /\ tree = <<>>
        /\ pc = "built"

\* markdown_to_adf is about to be called on a document of headings, rules and paragraphs
InitTripMarkdown ==
    \E n \in 1..MaxTripBlocks : \E m \in TripDocs(n) :
        /\ input = [kind |-> "blocks_md", trips |-> 0, before |-> <<>>]
        /\ markdown = m
        /\ lines = split(m, NL)
        /\ i = 0
        /\ content = <<>>
        /\ adf = None
        /\ out = None
        /\ tree = <<>>
        /\ pc = "parse"

InitTrip == InitTripAdf \/ InitTripMarkdown

\* the branches of markdown_to_adf these documents reach
NextTrip ==
    \/ EmptyLine
    \/ Heading
    \/ Rule
    \/ BulletList
    \/ Paragraph
    \/ Build
    \/ Serialize
    \/ Reparse

SpecTrip == InitTrip /\ [][NextTrip]_vars

\* ------------------------------------------------------------ claims

Done == pc = "done"

Returned == "returned" \in DOMAIN out

RECURSIVE NodesOfType(_, _)
\* the nodes of type t in a list of nodes and below it, in document order
NodesOfType(nodes, t) ==
    concat([k \in 1..Len(nodes) |->
        (IF Get(nodes[k], "type", None) = t THEN <<nodes[k]>> ELSE <<>>)
            \o NodesOfType(Get(nodes[k], "content", <<>>), t)])

\* the list item markdown_to_adf builds for a line "- " + text of plain text
PlainListItem(t) ==
    [type |-> "listItem", content |-> <<[type |-> "paragraph", content |-> <<TextNode(t)>>]>>]

\* C1 as claimed: checkbox lines parse to taskItem nodes, one per line, with
\* attrs.state DONE for "[x]" and TODO for "[ ]", and serialize back to the same lines
C1_TaskItems ==
    (Done /\ input.kind = "tasks") =>
        LET items == NodesOfType(adf.content, "taskItem")
        IN  /\ Len(items) = Len(input.states)
            /\ \A k \in 1..Len(items) :
                  Get(Get(items[k], "attrs", [x |-> None]), "state", None) = input.states[k]
            /\ Returned /\ out.returned = markdown

\* C1 amended: checkbox lines parse to one bulletList with one listItem per line whose
\* paragraph keeps the checkbox as literal text ("[x] done", "[ ] pending"); no
\* taskItem and no attrs.state is produced; serializing gives back the same lines
C1_CheckboxLinesAreBullets ==
    (Done /\ input.kind = "tasks") =>
        /\ adf.content = <<[type |-> "bulletList",
                            content |-> [k \in 1..Len(input.states) |->
                                PlainListItem(SubSeq(TaskLine(input.states[k]), 3,
                                                     Len(TaskLine(input.states[k]))))]]>>
        /\ NodesOfType(adf.content, "taskItem") = <<>>
        /\ Returned /\ out.returned = markdown

C1_Witness ==
    /\ Done /\ input.kind = "tasks" /\ input.states = <<"DONE", "TODO">>
    /\ Len(adf.content[1].content) = 2
    /\ Returned /\ out.returned = markdown

\* C2: for every level, "#" * level + " " + title parses to a single heading node
\* with attrs.level = level, and serializes back to the same line
C2_HeadingRoundTrip ==
    (Done /\ input.kind = "heading") =>
        /\ Len(adf.content) = 1
        /\ adf.content[1].type = "heading"
        /\ adf.content[1].attrs.level = input.level
        /\ Returned /\ out.returned = HeadingLine(input.level, input.title)

C2_Witness ==
    /\ Done /\ input.kind = "heading" /\ input.level = 6
    /\ adf.content[1].attrs.level = 6
    /\ Returned /\ out.returned = markdown

\* C3: a one-line paragraph of plain segments and marked spans (strong, em, code,
\* strike, link) is one paragraph node and serializes back to exactly the same line
C3_InlineRoundTrip ==
    (Done /\ input.kind = "inline" /\ strip(markdown) # <<>>) =>
        /\ Len(adf.content) = 1
        /\ adf.content[1].type = "paragraph"
        /\ Returned /\ out.returned = markdown

C3_Witness ==
    /\ Done /\ input.kind = "inline" /\ markdown = InlineExample
    /\ Len(adf.content[1].content) = 5
    /\ Returned /\ out.returned = markdown

\* C4: a table of a header line, a separator line and data lines parses to one table
\* node with one tableRow per non-separator line, the first row of tableHeader cells
\* and the later rows of tableCell cells, each holding its cell text; it serializes
\* to the same grid with one separator row, a "---" per header column, after row one
C4_TableShape ==
    (Done /\ input.kind = "table") =>
        LET g == input.grid
        IN  /\ Len(adf.content) = 1
            /\ adf.content[1].type = "table"
            /\ Len(adf.content[1].content) = Len(g)
            /\ \A r \in 1..Len(g) :
                  LET row == adf.content[1].content[r]
                  IN  /\ row.type = "tableRow"
                      /\ Len(row.content) = Len(g[r])
                      /\ \A c \in 1..Len(g[r]) :
                            /\ row.content[c].type = (IF r = 1 THEN "tableHeader" ELSE "tableCell")
                            /\ row.content[c].content =
                                  <<[type |-> "paragraph",
                                     content |-> IF g[r][c] = <<>> THEN <<>>
                                                 ELSE <<TextNode(g[r][c])>>]>>
            /\ Returned
            /\ split(out.returned, NL) =
                  <<GridLine(g[1]), GridLine([c \in 1..Len(g[1]) |-> <<"-", "-", "-">>])>>
                      \o [r \in 1..(Len(g) - 1) |-> GridLine(g[r + 1])]

C4_Witness ==
    /\ Done /\ input.kind = "table"
    /\ Len(input.grid) = 2 /\ Len(input.grid[1]) = 3
    /\ Len(adf.content[1].content) = 2
    /\ Len(split(out.returned, NL)) = 3

\* out.returned is text up to one trailing newline
SameUpToTrailingNewline(text) ==
    Returned /\ (out.returned = text \/ out.returned \o <<NL>> = text)

\* C5 as claimed: every paragraph of literal text without markdown special
\* characters is reproduced exactly, up to one trailing newline
C5_PlainRoundTrip ==
    (Done /\ input.kind = "plain") => SameUpToTrailingNewline(markdown)

\* C5 amended: every paragraph written on one line, of literal text without markdown
\* special characters, is reproduced exactly, up to one trailing newline; the lines
\* of a paragraph written on several lines come back joined by single spaces
C5_PlainLineRoundTrip ==
    (Done /\ input.kind = "plain") =>
        /\ adf.content = <<[type |-> "paragraph",
                            content |-> <<TextNode(join(<<" ">>,
                                SelectSeq(lines, LAMBDA l : l # <<>>)))>>]>>
        /\ input.nlines = 1 => SameUpToTrailingNewline(markdown)
        /\ input.nlines = 2 =>
              (Returned /\ out.returned = join(<<" ">>, lines) /\ out.returned # markdown)

C5_Witness ==
    /\ Done /\ input.kind = "plain" /\ input.nlines = 1
    /\ Len(markdown) = 3 /\ markdown[1] = " "
    /\ Returned /\ out.returned = markdown

\* the node needs a spacing paragraph: a rule, or a heading of level >= 2, not first
NeedsSpacing(c, k) ==
    /\ k > 1
    /\ \/ c[k].type = "rule"
       \/ c[k].type = "heading" /\ "attrs" \in DOMAIN c[k] /\ c[k].attrs.level >= 2

\* where node k of c stands once every spacing paragraph up to it is inserted
SpacedPosition(c, k) == k + Cardinality({j \in 1..k : NeedsSpacing(c, j)})

\* spaced is c with one empty paragraph right before each node that needs one
SpacedOnce(c, spaced) ==
    /\ Len(spaced) = Len(c) + Cardinality({j \in 1..Len(c) : NeedsSpacing(c, j)})
    /\ \A k \in 1..Len(c) :
          /\ spaced[SpacedPosition(c, k)] = c[k]
          /\ NeedsSpacing(c, k) => spaced[SpacedPosition(c, k) - 1] = EmptyParagraph

C7_SpacingIdempotent ==
    [][pc = "pass1" => content' = content]_vars

\* C7 amended: a second spacing pass inserts one more empty paragraph before every
\* rule or heading of level >= 2 at index > 0; it changes nothing only when the
\* sequence holds no such node
C7_SpacingAccumulates ==
    [][pc = "pass1" =>
          /\ SpacedOnce(content, content')
          /\ (content' = content) <=> (\A k \in 1..Len(content) : ~NeedsSpacing(content, k))]_vars

C7_Witness ==
    /\ pc = "pass2"
    /\ input.original = <<HeadingNode(1), HeadingNode(2)>>
    /\ content = <<HeadingNode(1), EmptyParagraph, EmptyParagraph, HeadingNode(2)>>

RECURSIVE BulletDepth(_)
\* nesting depth of a bulletList, the list itself counting as level 1
BulletDepth(list) ==
    LET nested == {a \in 1..Len(list.content) : Len(list.content[a].content) >= 2}
        below == {BulletDepth(list.content[a].content[2]) : a \in nested}
    IN  1 + (IF below = {} THEN 0 ELSE CHOOSE d \in below : \A e \in below : e <= d)

\* C8: on bullet lines of any indentation, 8 levels deep included, every step of
\* markdown_to_adf consumes at least one line, so the call returns; the result holds
\* only bulletLists, one listItem per line, and none nested deeper than 3 levels
C8_BulletDepthCapped ==
    input.kind = "bullets" =>
        /\ (pc = "parse" /\ i < Len(lines)) =>
              /\ branch(lines[i + 1]) = "bullet"
              /\ parse_bullet_list(lines, i, get_bullet_indent(lines[i + 1])).i > i
        /\ pc \in {"built", "done"} =>
              /\ \A k \in 1..Len(adf.content) :
                    /\ adf.content[k].type = "bulletList"
                    /\ BulletDepth(adf.content[k]) <= 3
              /\ Len(NodesOfType(adf.content, "listItem")) = Len(lines)

C8_Witness ==
    /\ pc = "built" /\ input.kind = "bullets"
    /\ markdown = Staircase(8)
    /\ Len(adf.content) = 1
    /\ BulletDepth(adf.content[1]) = 3

\* C9: a top-level node of unrecognized type is serialized to exactly the
\* concatenation, in document order, of the text of its descendant text nodes,
\* whatever the nesting and whatever else the node holds; no error is raised
C9_UnknownNodeText ==
    (Done /\ input.kind = "unknown") =>
        /\ Returned
        /\ out.returned = (IF input.prefix = <<>> THEN <<>> ELSE input.prefix \o <<NL, NL>>)
                              \o concat(input.texts)

C9_Witness ==
    /\ Done /\ input.kind = "unknown" /\ input.shape = "nested" /\ input.prefix = <<>>
    /\ input.texts = <<<<"a">>, <<"b", " ", "c">>, <<"a">>>>
    /\ Returned /\ out.returned = <<"a", "b", " ", "c", "a">>

\* C10: on a root whose type is not 'doc', a root without a type included,
\* adf_to_markdown raises ValueError and returns no markdown, whatever the root holds
C10_NonDocRootRaises ==
    (Done /\ Get(adf, "type", None) # "doc") =>
        /\ out = [raised |-> "ValueError"]
        /\ ~Returned

C10_Witness ==
    /\ Done
    /\ adf = RootNode("paragraph", <<<<[type |-> "paragraph", content |-> <<TextNode(<<"p">>)>>]>>>>)
    /\ out = [raised |-> "ValueError"]

\* C14: markdown_to_adf terminates: wherever the main loop stands on a line, the
\* iteration it runs strictly advances the line cursor, also on a line that starts
\* with '---' without being a rule and on a table region of separator rows only
C14_CursorAdvances ==
    (pc = "parse" /\ i < Len(lines)) => cursor_after(lines, i) > i

\* C15: the paragraph "a" ends at a following line that starts another block
\* (heading, fence, rule, bullet item indented or not, ordered item, blockquote,
\* table): the line is not absorbed into the paragraph and becomes a block of its own
C15_ParagraphEndsAtBlockStart ==
    (Done /\ input.kind = "para_then") =>
        /\ Len(adf.content) >= 2
        /\ adf.content[1] = PlainParagraph(<<"a">>)
        /\ adf.content[Len(adf.content)].type # "paragraph"

\* C16: an ordered item indented by one more 2-space unit than the item before it
\* becomes a nested orderedList inside that item's listItem
C16_OrderedListsNest ==
    (Done /\ input.kind = "ordered" /\ Len(input.indents) >= 2
          /\ input.indents[1] = 0 /\ input.indents[2] = 2) =>
        /\ adf.content[1].type = "orderedList"
        /\ Len(adf.content[1].content[1].content) = 2
        /\ adf.content[1].content[1].content[2].type = "orderedList"

\* C17: every heading node emitted by markdown_to_adf has attrs.level in 1..6
C17_HeadingLevelInRange ==
    pc \in {"built", "done"} =>
        \A k \in 1..Len(adf.content) :
            adf.content[k].type = "heading" => adf.content[k].attrs.level \in 1..6

\* the patterns that match text from position 0 on
MatchingPatterns(text) ==
    {k \in 1..Len(_INLINE_PATTERNS) : pattern_search(_INLINE_PATTERNS[k], text, 0).start >= 0}

\* the pattern whose match starts earliest, the earliest in the list among equals
FirstPattern(text) ==
    CHOOSE k \in MatchingPatterns(text) :
        \A j \in MatchingPatterns(text) :
            LET sk == pattern_search(_INLINE_PATTERNS[k], text, 0).start
                sj == pattern_search(_INLINE_PATTERNS[j], text, 0).start
            IN  sk < sj \/ (sk = sj /\ k <= j)

\* C20: parse_inline_markdown takes the pattern whose match starts earliest and,
\* among patterns matching at the same start, the earliest in the pattern list
\* (strong before em): the text before the match is emitted unmarked, then the
\* match's group with that single mark; no emitted node carries more than one mark
C20_EarliestPatternWins ==
    (Done /\ input.kind = "inline" /\ strip(markdown) # <<>>) =>
        LET nodes == adf.content[1].content
        IN  /\ \A k \in 1..Len(nodes) : Len(Get(nodes[k], "marks", <<>>)) <= 1
            /\ MatchingPatterns(markdown) = {} => nodes = <<TextNode(markdown)>>
            /\ MatchingPatterns(markdown) # {} =>
                  LET t == _INLINE_PATTERNS[FirstPattern(markdown)]
                      m == pattern_search(t, markdown, 0)
                      at == IF m.start > 0 THEN 2 ELSE 1
                  IN  /\ m.start > 0 => nodes[1] = TextNode(Slice(markdown, 0, m.start))
                      /\ nodes[at].text = m.group1
                      /\ Len(nodes[at].marks) = 1
                      /\ nodes[at].marks[1].type = t

C20_Witness ==
    /\ Done /\ input.kind = "inline"
    /\ markdown = <<"a", "*", "*", "b", "*", "*">>
    /\ adf.content[1].content =
          <<TextNode(<<"a">>), [type |-> "text", text |-> <<"b">>, marks |-> <<[type |-> "strong"]>>]>>

NoContentRendering(which) ==
    CASE which = "heading" -> <<"#", "#", " ">>
      [] which = "listItem" -> <<"-">>
      [] which = "tableRow" -> <<"|", " ", " ", "|", NL, "|", " ", " ", "|">>
      [] OTHER -> <<>>

BlockRendering(node) ==
    CASE node = PlainParagraph(<<"a">>) -> <<"a">>
      [] node = PlainParagraph(<<"b">>) -> <<"b">>
      [] node = [type |-> "rule"] -> <<"-", "-", "-">>
      [] node = HeadingNode(2) -> <<"#", "#", " ", "T">>
      [] OTHER -> <<>>

\* C13: adf_to_markdown joins the renderings of the top-level blocks, in document
\* order, with exactly one blank line between consecutive non-empty renderings; a
\* block that renders to the empty string contributes nothing, so the output neither
\* starts nor ends with the separator nor holds two separators in a row
C13_BlocksJoinedByBlankLine ==
    (Done /\ input.kind = "blocks") =>
        LET shown == SelectSeq([k \in 1..Len(input.blocks) |-> BlockRendering(input.blocks[k])],
                               LAMBDA r : r # <<>>)
            text == out.returned
        IN  /\ Returned
            /\ text = join(<<NL, NL>>, shown)
            /\ text # <<>> => text[1] # NL /\ text[Len(text)] # NL
            /\ \A k \in 1..(Len(text) - 2) : ~(text[k] = NL /\ text[k + 1] = NL /\ text[k + 2] = NL)

C13_Witness ==
    /\ Done /\ input.kind = "blocks"
    /\ input.blocks = <<EmptyParagraph, PlainParagraph(<<"a">>), EmptyParagraph>>
    /\ Returned /\ out.returned = <<"a">>

\* C18: with a node of unrecognized type at any position (block, inline child of a
\* paragraph, child of a list or of a table), adf_to_markdown raises no error and
\* its output still contains the text of the node's descendant text nodes
C18_UnknownTextKept ==
    (Done /\ input.kind = "unknown_at") =>
        /\ Returned
        /\ \E k \in 1..Len(out.returned) : out.returned[k] = "x"

\* C19: the markdown rendered for a text node with several marks is the same for
\* every permutation of its marks list
C19_MarkOrderIrrelevant ==
    (Done /\ input.kind = "marks") =>
        \A q \in MarkLists :
            (Len(q) = Len(input.marks)
                /\ {q[k] : k \in 1..Len(q)} = {input.marks[k] : k \in 1..Len(q)})
            => convert_paragraph(MarkedParagraph(q)) = out.returned

\* the nodes of the elements around the marimo-table in a layout
NodesAround(layout) ==
    CASE layout = "root" -> <<>>
      [] layout = "between" -> <<PlainParagraph(<<"a">>), PlainParagraph(<<"b">>)>>
      [] layout = "wrapped" -> <<[type |-> "rule"], EmptyParagraph,
                                [type |-> "heading", attrs |-> [level |-> 2],
                                 content |-> <<TextNode(<<"T">>)>>]>>

\* C12: html_to_adf never raises for a marimo-table whose data attribute is absent,
\* unparsable, or parsable but not a non-empty list of objects: the element gives
\* no node and the other elements of the document are converted
C12_MalformedWidgetSkipped ==
    (Done /\ input.kind = "marimo" /\ input.class # "rows") =>
        /\ Returned
        /\ out.returned = NodesAround(input.layout)

\* the number of characters of the opening delimiter of a pattern
OpenLen(mark_type) == IF mark_type \in {"strong", "strike"} THEN 2 ELSE 1

\* position k of the text lies in the markup of a matched span: in its opening
\* delimiter, or after its group 1 (closing delimiter, link target and brackets)
InMarkup(span, k) ==
    /\ span.start <= k
    /\ k < span.end
    /\ ~(span.start + OpenLen(span.type) <= k
         /\ k < span.start + OpenLen(span.type) + Len(span.group1))

\* the characters of text[0:pos] outside the markup of the spans, in order
WithoutMarkup(text, spans, pos) ==
    concat([k \in 1..pos |->
        IF \E n \in 1..Len(spans) : InMarkup(spans[n], k - 1) THEN <<>> ELSE <<text[k]>>])

\* the concatenated text values of a list of text nodes
TextOf(nodes) == concat([k \in 1..Len(nodes) |-> nodes[k].text])

\* the spans are matches of markup in the text, one after the other
SpansInOrder(text, spans) ==
    \A n \in 1..Len(spans) :
        /\ (IF n = 1 THEN 0 ELSE spans[n - 1].end) <= spans[n].start
        /\ spans[n].start + OpenLen(spans[n].type) + Len(spans[n].group1) < spans[n].end
        /\ spans[n].end <= Len(text)
        /\ Len(spans[n].group1) > 0

\* what holds of parse_inline_markdown at every point of its loop
InlineInvariant ==
    pc \in {"inline", "done"} =>
        /\ i <= Len(markdown)
        /\ SpansInOrder(markdown, out)
        /\ i = (IF out = <<>> THEN 0 ELSE out[Len(out)].end)
        /\ \A k \in 1..Len(content) : content[k].type = "text" /\ content[k].text # <<>>
        /\ pc = "inline" => TextOf(content) = WithoutMarkup(markdown, out, i)
        /\ pc = "done" =>
            /\ TextOf(content) = WithoutMarkup(markdown, out, Len(markdown))
            /\ content = parse_inline_markdown(markdown)

\* C21: parse_inline_markdown terminates with a finite list of text nodes: the
\* cursor stays within the text and strictly increases at each match, no emitted
\* node has empty text, and the concatenated text values are the input without the
\* delimiters and link targets of the matched spans, every other character once
\* and in order
C21_InlineTextPreserved ==
    /\ []InlineInvariant
    /\ [][(pc = "inline" /\ pc' = "inline") => i' > i]_vars
    /\ [][pc = "inline" => (pc' = "done" \/ i' > i)]_vars

\* a parse that matched two spans with plain text before, between and after them
C21_Witness ==
    /\ Done
    /\ input.kind = "inline"
    /\ Len(out) >= 2
    /\ Len(content) >= 4
    /\ \E k \in 1..Len(content) : "marks" \in DOMAIN content[k] /\ content[k].marks[1].type = "link"

\* a body line with the opening line's indent prefix removed where the line has it
WithoutIndent(l, indent) ==
    IF Len(l) >= indent /\ \A k \in 1..indent : l[k] = " "
    THEN SubSeq(l, indent + 1, Len(l))
    ELSE l

\* the one codeBlock holding exactly the body lines of the fenced document
FencedBlock(indent, body) ==
    [type |-> "codeBlock", attrs |-> [language |-> <<>>],
     content |-> <<TextNode(join(<<NL>>, [k \in 1..Len(body) |-> WithoutIndent(body[k], indent)]))>>]

\* C22: after an opening fence every line up to the next fence line goes, in order
\* and with the opening line's indent prefix removed where present, into the body of
\* one codeBlock, whatever the line looks like, and produces no other node; a fence
\* that is never closed takes the rest of the input
C22_FenceBodyVerbatim ==
    (pc \in {"built", "done"} /\ input.kind = "fence") =>
        adf.content =
            (IF input.before THEN <<PlainParagraph(<<"a">>)>> ELSE <<>>)
            \o <<FencedBlock(input.indent, input.body)>>
            \o (IF input.closed THEN <<PlainParagraph(<<"b">>)>> ELSE <<>>)

\* an indented, unterminated fence holding a heading-like and an indented body line
C22_Witness ==
    /\ Done
    /\ input.kind = "fence"
    /\ input.indent = 2
    /\ ~input.closed
    /\ input.body = <<<<"#", " ", "h">>, <<" ", " ", "x">>>>
    /\ Len(adf.content) = 1
    /\ adf.content[1].content[1].text = <<"#", " ", "h", NL, "x">>

\* the mark an inline element gives: none for an a element without href
MarkOf(tag, href) ==
    CASE tag \in {"strong", "b"} -> <<[type |-> "strong"]>>
      [] tag \in {"em", "i"} -> <<[type |-> "em"]>>
      [] tag = "code" -> <<[type |-> "code"]>>
      [] tag = "a" -> IF href THEN <<[type |-> "link", attrs |-> [href |-> <<"u">>]]>> ELSE <<>>
      [] tag = "u" -> <<[type |-> "underline"]>>
      [] tag \in {"s", "del", "strike"} -> <<[type |-> "strike"]>>

\* the inline content of the node made from a container element
InlineOf(node, container) ==
    CASE container = "td" -> node.content[1].content[1].content[1].content
      [] container = "li" -> node.content[1].content[1].content
      [] OTHER -> node.content

\* C23: html_to_adf gives the same mark for an inline element wherever it occurs, in
\* a paragraph, a heading, a table cell and a list item: strong/b strong, em/i em,
\* code code, a with href link (no mark without href), u underline, s/del/strike strike
C23_SameMarksEverywhere ==
    (Done /\ input.kind = "inline_in") =>
        /\ Returned
        /\ Len(out.returned) = 1
        /\ InlineOf(out.returned[1], input.container)
            = <<TextNode(<<"x">>)>>
              \o inline_text(<<"y">>, MarkOf(input.tag, input.href))
              \o <<TextNode(<<"z">>)>>

\* the text nodes kept by the pruning: a single space, or some character that is
\* not whitespace
Pruned(nodes) ==
    SelectSeq(nodes, LAMBDA n :
        n.text = <<" ">> \/ \E k \in 1..Len(n.text) : n.text[k] \notin Whitespace)

\* a text node with these marks, without a marks key when there are none
MarkedText(text, marks) ==
    IF marks = <<>> THEN [type |-> "text", text |-> text]
    ELSE [type |-> "text", text |-> text, marks |-> marks]

C25_WrappersTransparent ==
    (Done /\ input.kind = "wrapped") =>
        out = html_to_adf(<<InContext(input.context, input.block)>>)

\* the node of a nested list with the one item n
SubListNode(list_type) ==
    [type |-> list_type,
     content |-> <<[type |-> "listItem", content |-> <<PlainParagraph(<<"n">>)>>]>>]

\* the texts of the li itself, before and after its nested lists
OwnTexts(inp) ==
    SelectSeq(<<inp.before, inp.after1>> \o (IF inp.second THEN <<inp.after2>> ELSE <<>>),
              LAMBDA t : t # <<>>)

\* C26: an li holding nested lists gives one listItem: a leading paragraph with all
\* the text of the li itself, before and after the nested lists, then one list node
\* per nested ul/ol in order; the outer list has the direct li only and no text is lost
C26_NestedListItem ==
    (Done /\ input.kind = "nested_li") =>
        /\ Returned
        /\ Len(out.returned) = 1
        /\ out.returned[1].type = "bulletList"
        /\ Len(out.returned[1].content) = 1
        /\ Let(out.returned[1].content[1].content, LAMBDA item :
            IF OwnTexts(input) = <<>>
            THEN item = <<SubListNode("bulletList")>>
                        \o (IF input.second THEN <<SubListNode("orderedList")>> ELSE <<>>)
            ELSE /\ item # <<>>
                 /\ item[1].type = "paragraph"
                 /\ \A k \in 1..Len(OwnTexts(input)) :
                        contains(extract_text_from_content(item[1].content), OwnTexts(input)[k])
                 /\ Tail(item) = <<SubListNode("bulletList")>>
                        \o (IF input.second THEN <<SubListNode("orderedList")>> ELSE <<>>))

\* the texts of the list items of a document in a pre-order walk
ItemTexts(nodes) ==
    Map(NodesOfType(nodes, "listItem"),
        LAMBDA item : extract_text_from_content(item.content[1].content))

\* C27: a run of bullet lines of any indentation gives exactly one listItem per line,
\* none dropped and none twice, and a pre-order walk of the bulletLists meets the
\* items in the order of the lines
C27_OneItemPerLineInOrder ==
    (pc \in {"built", "done"} /\ input.kind = "numbered") =>
        /\ \A k \in 1..Len(adf.content) : adf.content[k].type = "bulletList"
        /\ ItemTexts(adf.content) = [k \in 1..Len(input.spaces) |-> IntToStr(k)]

\* three lines, the second deeper than the first and the third: one list, the second
\* item nested in the first
C27_Witness ==
    /\ Done
    /\ input.kind = "numbered"
    /\ input.spaces = <<0, 2, 0>>
    /\ Len(adf.content) = 1
    /\ Len(adf.content[1].content) = 2
    /\ ItemTexts(adf.content) = <<<<"1">>, <<"2">>, <<"3">>>>

\* C28: a run of bullet lines none of which is indented less than the first gives
\* exactly one top-level bulletList: every deeper line is in that list
C28_OneTopLevelList ==
    (pc \in {"built", "done"} /\ input.kind = "numbered"
        /\ \A k \in 1..Len(input.spaces) : input.spaces[k] >= input.spaces[1]) =>
        /\ Len(adf.content) = 1
        /\ adf.content[1].type = "bulletList"

\* markdown_to_adf is at a line of one of these branches and its step moves on
AtBranchOf(branches) ==
    (pc = "parse" /\ i < Len(lines)) =>
        /\ branch(lines[i + 1]) \in branches
        /\ cursor_after(lines, i) > i

\* C29: for a doc whose only block is a bulletList nested at most 3 levels, each
\* listItem one paragraph of non-empty plain text optionally followed by one nested
\* bulletList, markdown_to_adf(adf_to_markdown(doc)) equals doc
C29_BulletDocRoundTrip ==
    input.kind = "bullet_doc" =>
        /\ pc = "done" => "returned" \in DOMAIN out
        /\ AtBranchOf({"bullet"})
        /\ (pc = "built" /\ input.trips >= 1) => adf = input.doc

\* a document nested 3 levels with an item after the nested lists has come back
C29_Witness ==
    /\ pc = "built"
    /\ input.kind = "bullet_doc"
    /\ input.trips = 1
    /\ BulletDepth(input.doc.content[1]) = 3
    /\ Len(input.doc.content[1].content) = 2
    /\ adf = input.doc
    /\ lines = <<<<"-", " ", "b", " ", "c">>,
                 <<" ", " ", "-", " ", "b", " ", "c">>,
                 <<" ", " ", " ", " ", "-", " ", "a">>,
                 <<"-", " ", "a">>>>

\* C30: for a markdown document m of headings, rules and plain paragraphs,
\* markdown_to_adf(adf_to_markdown(markdown_to_adf(m))) equals markdown_to_adf(m):
\* the spacing paragraphs render to nothing and are inserted again exactly once
C30_SpacingStableOverRoundTrip ==
    input.kind = "blocks_md" =>
        /\ pc = "done" => "returned" \in DOMAIN out
        /\ AtBranchOf({"empty", "heading", "rule", "paragraph"})
        /\ (pc = "built" /\ input.trips >= 1) => adf = input.before[1]

\* a document with a spacing paragraph before a rule and before a heading has come back
C30_Witness ==
    /\ pc = "built"
    /\ input.kind = "blocks_md"
    /\ input.trips = 1
    /\ adf = input.before[1]
    /\ adf.content = <<PlainParagraph(<<"a">>), EmptyParagraph, [type |-> "rule"],
                       EmptyParagraph,
                       [type |-> "heading", attrs |-> [level |-> 2],
                        content |-> <<TextNode(<<"T">>)>>]>>

====
